---- MODULE Spec2Model ----
(***************************************************************************)
(* Swapskill: the collection access functions of lib/firestore.ts and the  *)
(* client state store of store/useFirebaseStore.ts, over an in-memory      *)
(* document store.  A collection is a sequence of documents; a document's  *)
(* id is its index, and a deleted document leaves NoDoc at its index (the  *)
(* store never reuses an id).                                              *)
(***************************************************************************)
EXTENDS Integers, Sequences, FiniteSets, TLC

VARIABLES
    dbUsers,          \* users collection: uid -> user document
    dbSkills,         \* skills collection
    dbSwapRequests,   \* swapRequests collection
    dbRatings,        \* ratings collection
    dbConversations,  \* conversations collection
    dbMessages,       \* messages collection
    dbNotifications,  \* notifications collection
    dbFlaggedContent, \* flaggedContent collection
    dbSystemMessages, \* systemMessages collection
    listeners,        \* the subscriptions: which snapshot listeners are attached
    views,            \* the mounted views: what their effect subscribed to
    store,            \* the zustand cache (useFirebaseStore state)
    calls,            \* store actions and service calls in flight
    ret               \* the last completed service call: its name, arguments, result

vars == <<dbUsers, dbSkills, dbSwapRequests, dbRatings, dbConversations,
          dbMessages, dbNotifications, dbFlaggedContent, dbSystemMessages,
          listeners, views, store, calls, ret>>

userVars == <<dbUsers, dbSkills, dbSwapRequests, dbRatings>>
msgVars == <<dbConversations, dbMessages, dbNotifications>>
storeVars == <<store, calls>>
adminVars == <<dbFlaggedContent, dbSystemMessages, listeners, views>>

----------------------------------------------------------------------------
(* Bounds and universes *)

Users == {"u1", "u2", "u3"}          \* ids that take part in conversations
Emojis == {"e1", "e2"}
MemberOrder == <<"u1", "u2">>        \* the user documents, in document order
Members == {MemberOrder[i] : i \in 1..Len(MemberOrder)}
Categories == {"tech", "art"}
SkillTypes == {"offered", "wanted"}
Reasons == {"spam", "abuse"}
RatingValues == 1..5
None == "none"                       \* an optional argument left out

MaxConvs == 1
MaxMsgs == 2
MaxSkills == 2
MaxRequests == 1
MaxRatings == 2
MaxTime == 3        \* server clock readings an update may take
MaxInFlight == 2    \* store actions in flight at once

NoDoc == [exists |-> FALSE]

\* the views that subscribe in an effect, and a view that is not mounted
Views == {"AdminDashboard", "NotificationCenter"}
Unmounted == [mounted |-> FALSE]
Null == "null"

Range(s) == {s[i] : i \in 1..Len(s)}
Exists(coll, id) == id \in 1..Len(coll) /\ coll[id].exists

\* updateDoc(ref, updates): the fields named in updates are overwritten
Merge(document, updates) ==
    [f \in DOMAIN document \cup DOMAIN updates |->
        IF f \in DOMAIN updates THEN updates[f] ELSE document[f]]

----------------------------------------------------------------------------
(* enhancedMessageService: conversations and unread counters *)

\* (obj[key] || 0) on an unread-count map
UnreadOf(unreadCount, userId) ==
    IF userId \in DOMAIN unreadCount THEN unreadCount[userId] ELSE 0

\* obj[key] = value on a copy of a map
MapSet(m, key, value) ==
    [k \in DOMAIN m \cup {key} |-> IF k = key THEN value ELSE m[k]]

\* conversationData.unreadCount || {}
CurrentUnreadCount(conv) ==
    IF "unreadCount" \in DOMAIN conv THEN conv.unreadCount ELSE <<>>

\* createConversation: unreadCount[userId] = 0 for each participant
InitialUnreadCount(participants) == [u \in participants |-> 0]

ConversationData(participants) ==
    [exists |-> TRUE, participants |-> participants, type |-> "direct",
     lastMessage |-> Null, unreadCount |-> InitialUnreadCount(participants)]

EnhancedCreateConversation(participants) ==
    /\ Len(dbConversations) < MaxConvs
    /\ dbConversations' = Append(dbConversations, ConversationData(participants))
    /\ ret' = [op |-> "createConversation", participants |-> participants,
               id |-> Len(dbConversations) + 1]
    /\ UNCHANGED <<dbMessages, dbNotifications, userVars>>

IncrementsForEveryone(userId, senderId) == TRUE

\* whether sendMessage's forEach increments the counter of userId
IncrementsFor(userId, senderId) == userId # senderId

\* sendMessage: increment unread count for all participants except sender
IncrementUnread(currentUnreadCount, participants, senderId) ==
    [u \in DOMAIN currentUnreadCount \cup {p \in participants : IncrementsFor(p, senderId)} |->
        IF u \in participants /\ IncrementsFor(u, senderId)
        THEN UnreadOf(currentUnreadCount, u) + 1
        ELSE currentUnreadCount[u]]

MessageData(conversationId, senderId) ==
    [exists |-> TRUE, conversationId |-> conversationId, senderId |-> senderId,
     timeField |-> "timestamp", read |-> FALSE, edited |-> FALSE,
     reactions |-> <<>>]

\* one notification per participant other than the sender, in participant order
RECURSIVE NewMessageNotifications(_, _, _)
NewMessageNotifications(others, conversationId, messageId) ==
    IF others = {} THEN <<>>
    ELSE LET p == CHOOSE x \in others : TRUE
         IN <<[exists |-> TRUE, userId |-> p, type |-> "new_message",
               conversationId |-> conversationId, messageId |-> messageId,
               read |-> FALSE]>>
            \o NewMessageNotifications(others \ {p}, conversationId, messageId)

EnhancedSendMessage(conversationId, senderId) ==
    LET messageId == Len(dbMessages) + 1 IN
    /\ Len(dbMessages) < MaxMsgs
    /\ dbMessages' = Append(dbMessages, MessageData(conversationId, senderId))
    /\ IF Exists(dbConversations, conversationId)
       THEN LET conv == dbConversations[conversationId]
                otherParticipants == {p \in conv.participants : p # senderId}
            IN /\ dbConversations' =
                     [dbConversations EXCEPT ![conversationId] =
                        Merge(conv,
                          [lastMessage |-> senderId,
                           unreadCount |-> IncrementUnread(CurrentUnreadCount(conv),
                                                           conv.participants, senderId)])]
               /\ dbNotifications' = dbNotifications \o
                     NewMessageNotifications(otherParticipants, conversationId, messageId)
       ELSE UNCHANGED <<dbConversations, dbNotifications>>
    /\ ret' = [op |-> "sendMessage", conversationId |-> conversationId,
               senderId |-> senderId, id |-> messageId]
    /\ UNCHANGED userVars

\* markConversationAsRead: newUnreadCount[userId] = 0
ResetUnread(currentUnreadCount, userId) == MapSet(currentUnreadCount, userId, 0)

\* the messages markConversationAsRead's query selects
UnreadFromOthers(msg, conversationId, userId) ==
    /\ msg.exists
    /\ msg.conversationId = conversationId
    /\ msg.senderId # userId
    /\ "read" \in DOMAIN msg
    /\ msg.read = FALSE

MarkConversationAsRead(conversationId, userId) ==
    /\ dbMessages' = [i \in 1..Len(dbMessages) |->
                        IF UnreadFromOthers(dbMessages[i], conversationId, userId)
                        THEN [dbMessages[i] EXCEPT !.read = TRUE]
                        ELSE dbMessages[i]]
    /\ IF Exists(dbConversations, conversationId)
       THEN dbConversations' =
               [dbConversations EXCEPT ![conversationId] =
                   Merge(@, [unreadCount |-> ResetUnread(CurrentUnreadCount(@), userId)])]
       ELSE UNCHANGED dbConversations
    /\ ret' = [op |-> "markConversationAsRead", conversationId |-> conversationId,
               userId |-> userId]
    /\ UNCHANGED <<dbNotifications, userVars>>

----------------------------------------------------------------------------
(* enhancedMessageService: reactions *)

\* reactions.findIndex(r => r.emoji === emoji); 0 stands for -1
FindReactionIndex(reactions, emoji) ==
    IF \E i \in 1..Len(reactions) : reactions[i].emoji = emoji
    THEN CHOOSE i \in 1..Len(reactions) :
            /\ reactions[i].emoji = emoji
            /\ \A j \in 1..(i - 1) : reactions[j].emoji # emoji
    ELSE 0

\* existingReaction.users.includes(userId)
UsersInclude(users, userId) == \E i \in 1..Len(users) : users[i] = userId

AddReactionAlwaysPush(reactions, emoji, userId) ==
    LET i == FindReactionIndex(reactions, emoji) IN
    IF i > 0
    THEN [reactions EXCEPT ![i].users = Append(@, userId)]
    ELSE Append(reactions, [emoji |-> emoji, users |-> <<userId>>])

AddReaction(reactions, emoji, userId) ==
    LET i == FindReactionIndex(reactions, emoji) IN
    IF i > 0
    THEN IF ~UsersInclude(reactions[i].users, userId)
         THEN [reactions EXCEPT ![i].users = Append(@, userId)]
         ELSE reactions
    ELSE Append(reactions, [emoji |-> emoji, users |-> <<userId>>])

RemoveReactionKeepingEmpty(reactions, emoji, userId) ==
    [i \in 1..Len(reactions) |->
        IF reactions[i].emoji = emoji
        THEN [reactions[i] EXCEPT !.users = SelectSeq(@, LAMBDA id : id # userId)]
        ELSE reactions[i]]

\* the map that strips the user from the emoji's entry, then the filter that
\* drops entries without users
RemoveReaction(reactions, emoji, userId) ==
    LET mapped == [i \in 1..Len(reactions) |->
                     IF reactions[i].emoji = emoji
                     THEN [reactions[i] EXCEPT
                             !.users = SelectSeq(@, LAMBDA id : id # userId)]
                     ELSE reactions[i]]
    IN SelectSeq(mapped, LAMBDA r : Len(r.users) > 0)

AddMessageReaction(messageId, emoji, userId) ==
    /\ IF Exists(dbMessages, messageId)
       THEN dbMessages' = [dbMessages EXCEPT ![messageId].reactions =
                              AddReaction(@, emoji, userId)]
       ELSE UNCHANGED dbMessages
    /\ ret' = [op |-> "addMessageReaction", messageId |-> messageId,
               emoji |-> emoji, userId |-> userId]
    /\ UNCHANGED <<dbConversations, dbNotifications, userVars>>

RemoveMessageReaction(messageId, emoji, userId) ==
    /\ IF Exists(dbMessages, messageId)
       THEN dbMessages' = [dbMessages EXCEPT ![messageId].reactions =
                              RemoveReaction(@, emoji, userId)]
       ELSE UNCHANGED dbMessages
    /\ ret' = [op |-> "removeMessageReaction", messageId |-> messageId,
               emoji |-> emoji, userId |-> userId]
    /\ UNCHANGED <<dbConversations, dbNotifications, userVars>>

\* editMessage: updateDoc needs the message to exist
EditMessage(messageId, newContent) ==
    /\ Exists(dbMessages, messageId)
    /\ dbMessages' = [dbMessages EXCEPT ![messageId] =
                         Merge(@, [content |-> newContent, edited |-> TRUE,
                                   editedAt |-> "serverTimestamp"])]
    /\ ret' = [op |-> "editMessage", messageId |-> messageId]
    /\ UNCHANGED <<dbConversations, dbNotifications, userVars>>

\* deleteMessage: deleteDoc, which succeeds whether or not the message exists
DeleteMessage(messageId) ==
    /\ dbMessages' = [m \in 1..Len(dbMessages) |->
                         IF m = messageId THEN NoDoc ELSE dbMessages[m]]
    /\ ret' = [op |-> "deleteMessage", messageId |-> messageId]
    /\ UNCHANGED <<dbConversations, dbNotifications, userVars>>

----------------------------------------------------------------------------
(* Field values of a document: arrays, maps, a missing field *)

ArrayValue(items) == [kind |-> "array", items |-> items]
Missing == [kind |-> "missing"]

\* the value at a nested field path segment: only a map has nested fields
NestedField(value, name) ==
    IF value.kind = "map" /\ name \in DOMAIN value.fields
    THEN value.fields[name]
    ELSE Missing

\* the array-contains filter
ArrayContains(value, x) ==
    value.kind = "array" /\ \E i \in 1..Len(value.items) : value.items[i] = x

\* arrayUnion / arrayRemove field updates
ArrayUnion(value, x) ==
    IF ArrayContains(value, x) THEN value ELSE ArrayValue(Append(value.items, x))
ArrayRemove(value, x) == ArrayValue(SelectSeq(value.items, LAMBDA y : y # x))

----------------------------------------------------------------------------
(* userService *)

\* createUserProfile; name and location come with userData, as texts (the
\* sequences of their letters)
ProfileData(userId, name, location) ==
    [exists |-> TRUE, id |-> userId, name |-> name, location |-> location,
     skillsOffered |-> ArrayValue(<<>>), skillsWanted |-> ArrayValue(<<>>),
     rating |-> 0, reviewCount |-> 0, isVerified |-> FALSE,
     isBanned |-> FALSE, banReason |-> "undefined", bannedAt |-> "undefined"]

\* getUserProfile: { id, ...data } of the user document, or null (NoDoc)
GetUserProfileResult(userId) ==
    IF userId \in DOMAIN dbUsers /\ dbUsers[userId].exists
    THEN Merge(dbUsers[userId], [id |-> userId])
    ELSE NoDoc

GetUserProfile(userId) ==
    /\ ret' = [op |-> "getUserProfile", userId |-> userId,
               value |-> GetUserProfileResult(userId)]
    /\ UNCHANGED <<userVars, msgVars>>

UpdateUserProfile(userId, updates) ==
    /\ dbUsers' = [dbUsers EXCEPT ![userId] = Merge(@, updates)]
    /\ ret' = [op |-> "updateUserProfile", userId |-> userId, updates |-> updates]
    /\ UNCHANGED <<dbSkills, dbSwapRequests, dbRatings, msgVars>>

BanUpdatesKeepVerified(reason) ==
    [isBanned |-> TRUE, banReason |-> reason, bannedAt |-> "serverTimestamp"]

\* the fields banUser writes
BanUpdates(reason) ==
    [isBanned |-> TRUE, banReason |-> reason, bannedAt |-> "serverTimestamp",
     isVerified |-> FALSE]

UnbanUpdatesRestoreVerified ==
    [isBanned |-> FALSE, banReason |-> Null, bannedAt |-> Null, isVerified |-> TRUE]

\* the fields unbanUser writes
UnbanUpdates == [isBanned |-> FALSE, banReason |-> Null, bannedAt |-> Null]

BanUser(userId, reason) ==
    /\ dbUsers' = [dbUsers EXCEPT ![userId] = Merge(@, BanUpdates(reason))]
    /\ ret' = [op |-> "banUser", userId |-> userId, reason |-> reason]
    /\ UNCHANGED <<dbSkills, dbSwapRequests, dbRatings, msgVars>>

UnbanUser(userId) ==
    /\ dbUsers' = [dbUsers EXCEPT ![userId] = Merge(@, UnbanUpdates)]
    /\ ret' = [op |-> "unbanUser", userId |-> userId]
    /\ UNCHANGED <<dbSkills, dbSwapRequests, dbRatings, msgVars>>

----------------------------------------------------------------------------
(* skillService *)

SkillData(skill, userId, type) ==
    [exists |-> TRUE, name |-> skill.name, category |-> skill.category,
     userId |-> userId, type |-> type]

SkillField(type) == IF type = "offered" THEN "skillsOffered" ELSE "skillsWanted"

AddSkillToUser(userId, skill, type) ==
    LET skillId == Len(dbSkills) + 1
        fieldName == SkillField(type)
    IN /\ Len(dbSkills) < MaxSkills
       /\ dbSkills' = Append(dbSkills, SkillData(skill, userId, type))
       /\ dbUsers' = [dbUsers EXCEPT ![userId][fieldName] = ArrayUnion(@, skillId)]
       /\ ret' = [op |-> "addSkillToUser", userId |-> userId, type |-> type,
                  id |-> skillId]
       /\ UNCHANGED <<dbSwapRequests, dbRatings, msgVars>>

RemoveSkillFromUser(userId, skillId, type) ==
    LET fieldName == SkillField(type)
    IN /\ dbSkills' = [i \in 1..Len(dbSkills) |->
                          IF i = skillId THEN NoDoc ELSE dbSkills[i]]
       /\ dbUsers' = [dbUsers EXCEPT ![userId][fieldName] = ArrayRemove(@, skillId)]
       /\ ret' = [op |-> "removeSkillFromUser", userId |-> userId, type |-> type,
                  id |-> skillId]
       /\ UNCHANGED <<dbSwapRequests, dbRatings, msgVars>>

\* addSkillToUser whose second await rejects: the skill document has been
\* added, the user's id array has not been updated
AddSkillToUserFailsAtUpdate(userId, skill, type) ==
    /\ Len(dbSkills) < MaxSkills
    /\ dbSkills' = Append(dbSkills, SkillData(skill, userId, type))
    /\ ret' = [op |-> "rejected", call |-> "addSkillToUser", message |-> "unavailable"]
    /\ UNCHANGED <<dbUsers, dbSwapRequests, dbRatings, msgVars>>

\* removeSkillFromUser whose second await rejects: the skill document has
\* been deleted, the user's id array still holds its id
RemoveSkillFromUserFailsAtUpdate(userId, skillId, type) ==
    /\ dbSkills' = [i \in 1..Len(dbSkills) |->
                       IF i = skillId THEN NoDoc ELSE dbSkills[i]]
    /\ ret' = [op |-> "rejected", call |-> "removeSkillFromUser",
               message |-> "unavailable"]
    /\ UNCHANGED <<dbUsers, dbSwapRequests, dbRatings, msgVars>>

\* { id: doc.id, ...doc.data() } of a skill document
SkillObject(skillId) ==
    [kind |-> "object", id |-> skillId, name |-> dbSkills[skillId].name,
     category |-> dbSkills[skillId].category, userId |-> dbSkills[skillId].userId,
     type |-> dbSkills[skillId].type]

\* the skills query where("userId", "==", userId), in document order
RECURSIVE SkillsOfUser(_, _)
SkillsOfUser(userId, n) ==
    IF n = 0 THEN <<>>
    ELSE SkillsOfUser(userId, n - 1) \o
         (IF dbSkills[n].exists /\ dbSkills[n].userId = userId
          THEN <<SkillObject(n)>> ELSE <<>>)

\* getUserSkills: the skills of the user, of one type when a type is given
GetUserSkillsResult(userId, type) ==
    SelectSeq(SkillsOfUser(userId, Len(dbSkills)),
              LAMBDA skill : type = None \/ skill.type = type)

GetUserSkills(userId, type) ==
    /\ ret' = [op |-> "getUserSkills", userId |-> userId, type |-> type,
               value |-> GetUserSkillsResult(userId, type)]
    /\ UNCHANGED <<userVars, msgVars>>

----------------------------------------------------------------------------
(* userService.searchUsers *)

SearchLimit == 20

IsPrefix(p, s) == Len(p) <= Len(s) /\ \A i \in 1..Len(p) : p[i] = s[i]

\* where("skillsOffered.category", "array-contains", skillCategory)
CategoryFilter(user, skillCategory) ==
    ArrayContains(NestedField(user.skillsOffered, "category"), skillCategory)

\* where("location", ">=", location), where("location", "<=", location + "")
LocationFilter(user, location) == IsPrefix(location, user.location)

\* the documents the query returns, in document order, at most SearchLimit
RECURSIVE QueryUsers(_, _, _)
QueryUsers(skillCategory, location, n) ==
    IF n = 0 THEN <<>>
    ELSE LET user == dbUsers[MemberOrder[n]]
             rest == QueryUsers(skillCategory, location, n - 1)
         IN IF /\ user.exists
               /\ Len(rest) < SearchLimit
               /\ (skillCategory # None => CategoryFilter(user, skillCategory))
               /\ (location # None => LocationFilter(user, location))
            THEN Append(rest, user)
            ELSE rest

KeepsUserIgnoringBan(user, verifiedOnly) ==
    ~(verifiedOnly /\ user.isVerified # TRUE)

\* the in-memory filter of searchUsers
KeepsUser(user, verifiedOnly) ==
    /\ ~(user.isBanned = TRUE)
    /\ ~(verifiedOnly /\ user.isVerified # TRUE)

\* Load skills for each user
WithSkills(user) ==
    LET skills == SkillsOfUser(user.id, Len(dbSkills))
    IN [user EXCEPT
          !.skillsOffered = SelectSeq(skills, LAMBDA sk : sk.type = "offered"),
          !.skillsWanted = SelectSeq(skills, LAMBDA sk : sk.type = "wanted")]

\* users.sort((a, b) => (b.rating || 0) - (a.rating || 0)): stable, descending
RECURSIVE SortByRating(_)
SortByRating(users) ==
    IF Len(users) <= 1 THEN users
    ELSE LET sorted == SortByRating(SubSeq(users, 1, Len(users) - 1))
             last == users[Len(users)]
             k == Cardinality({i \in 1..Len(sorted) : sorted[i].rating >= last.rating})
         IN SubSeq(sorted, 1, k) \o <<last>> \o SubSeq(sorted, k + 1, Len(sorted))

SearchUsersResult(skillCategory, location, verifiedOnly) ==
    LET page == QueryUsers(skillCategory, location, Len(MemberOrder))
        kept == SelectSeq(page, LAMBDA user : KeepsUser(user, verifiedOnly))
    IN SortByRating([i \in 1..Len(kept) |-> WithSkills(kept[i])])

\* searchAllUsersIncludingBanned without filters: every user, banned or
\* not, with skills loaded, highest rating first
SearchAllUsersIncludingBannedResult ==
    LET all == SelectSeq([n \in 1..Len(MemberOrder) |-> dbUsers[MemberOrder[n]]],
                         LAMBDA user : user.exists)
    IN SortByRating([i \in 1..Len(all) |-> WithSkills(all[i])])

SearchAllUsersIncludingBanned ==
    /\ ret' = [op |-> "searchAllUsersIncludingBanned",
               value |-> SearchAllUsersIncludingBannedResult]
    /\ UNCHANGED <<userVars, msgVars>>

SearchUsers(skillCategory, location, verifiedOnly) ==
    /\ ret' = [op |-> "searchUsers", skillCategory |-> skillCategory,
               location |-> location, verifiedOnly |-> verifiedOnly,
               value |-> SearchUsersResult(skillCategory, location, verifiedOnly)]
    /\ UNCHANGED <<userVars, msgVars>>

\* searchUsers called with a search text: the function does not read its
\* searchQuery parameter
SearchUsersWithQuery(searchQuery, skillCategory, location, verifiedOnly) ==
    /\ ret' = [op |-> "searchUsers", searchQuery |-> searchQuery,
               skillCategory |-> skillCategory, location |-> location,
               verifiedOnly |-> verifiedOnly,
               value |-> SearchUsersResult(skillCategory, location, verifiedOnly)]
    /\ UNCHANGED <<userVars, msgVars>>

----------------------------------------------------------------------------
(* swapRequestService *)

\* where(field, "==", value): a document without the field never matches
FieldEquals(document, field, value) ==
    document.exists /\ field \in DOMAIN document /\ document[field] = value

BareSkillId(skillId) == [kind |-> "id", id |-> skillId]

\* createdAt is the server timestamp: later documents have later timestamps
CreateSwapRequest(requestData) ==
    LET requestId == Len(dbSwapRequests) + 1 IN
    /\ Len(dbSwapRequests) < MaxRequests
    /\ dbSwapRequests' = Append(dbSwapRequests,
          Merge(requestData, [exists |-> TRUE, createdAt |-> requestId,
                              updatedAt |-> requestId]))
    /\ ret' = [op |-> "createSwapRequest", id |-> requestId]
    /\ UNCHANGED <<dbUsers, dbSkills, dbRatings, msgVars>>

\* updateSwapRequestStatus: adminNotes is written only when it is non-empty
StatusUpdates(status, adminNotes, now) ==
    IF adminNotes # ""
    THEN [status |-> status, updatedAt |-> now, adminNotes |-> adminNotes]
    ELSE [status |-> status, updatedAt |-> now]

\* updateDoc fails on a document that does not exist; the server timestamp
\* is later than the document's previous one
UpdateSwapRequestStatus(requestId, status, adminNotes) ==
    /\ Exists(dbSwapRequests, requestId)
    /\ dbSwapRequests[requestId].updatedAt < MaxTime
    /\ dbSwapRequests' =
          [dbSwapRequests EXCEPT ![requestId] =
              Merge(@, StatusUpdates(status, adminNotes, @.updatedAt + 1))]
    /\ ret' = [op |-> "updateSwapRequestStatus", id |-> requestId, status |-> status]
    /\ UNCHANGED <<dbUsers, dbSkills, dbRatings, msgVars>>

\* typeof field === 'string': fetch the skill, keep the field if there is none
ResolveSkill(field) ==
    IF field.kind = "id"
    THEN IF Exists(dbSkills, field.id) THEN SkillObject(field.id) ELSE field
    ELSE field

\* { id: doc.id, ...doc.data() } with both skill fields populated
PopulatedRequest(requestId) ==
    LET document == dbSwapRequests[requestId]
    IN Merge(document, [id |-> requestId,
                        offeredSkill |-> ResolveSkill(document.offeredSkill),
                        requestedSkill |-> ResolveSkill(document.requestedSkill)])

\* the ids of the swap requests a where(field == value) query returns
RECURSIVE RequestsWhere(_, _, _)
RequestsWhere(field, value, n) ==
    IF n = 0 THEN <<>>
    ELSE RequestsWhere(field, value, n - 1) \o
         (IF FieldEquals(dbSwapRequests[n], field, value) THEN <<n>> ELSE <<>>)

\* requests.sort((a, b) => b.createdAt - a.createdAt): stable, descending
RECURSIVE SortByCreatedAt(_)
SortByCreatedAt(requests) ==
    IF Len(requests) <= 1 THEN requests
    ELSE LET sorted == SortByCreatedAt(SubSeq(requests, 1, Len(requests) - 1))
             last == requests[Len(requests)]
             k == Cardinality({i \in 1..Len(sorted) :
                                  sorted[i].createdAt >= last.createdAt})
         IN SubSeq(sorted, 1, k) \o <<last>> \o SubSeq(sorted, k + 1, Len(sorted))

IncomingField == "responderId"
OutgoingField == "requesterId"

GetUserSwapRequestsResult(userId, type) ==
    LET n == Len(dbSwapRequests)
        ids == IF type = "incoming" THEN RequestsWhere(IncomingField, userId, n)
               ELSE IF type = "outgoing" THEN RequestsWhere(OutgoingField, userId, n)
               ELSE RequestsWhere(IncomingField, userId, n)
                    \o RequestsWhere(OutgoingField, userId, n)
    IN SortByCreatedAt([i \in 1..Len(ids) |-> PopulatedRequest(ids[i])])

GetUserSwapRequests(userId, type) ==
    /\ ret' = [op |-> "getUserSwapRequests", userId |-> userId, type |-> type,
               value |-> GetUserSwapRequestsResult(userId, type)]
    /\ UNCHANGED <<userVars, msgVars>>

RECURSIVE AllRequests(_, _, _)
AllRequests(status, priority, n) ==
    IF n = 0 THEN <<>>
    ELSE AllRequests(status, priority, n - 1) \o
         (IF /\ dbSwapRequests[n].exists
             /\ (status # None => FieldEquals(dbSwapRequests[n], "status", status))
             /\ (priority # None => FieldEquals(dbSwapRequests[n], "priority", priority))
          THEN <<n>> ELSE <<>>)

GetAllSwapRequestsResult(status, priority) ==
    LET ids == AllRequests(status, priority, Len(dbSwapRequests))
    IN SortByCreatedAt([i \in 1..Len(ids) |-> PopulatedRequest(ids[i])])

GetAllSwapRequests(status, priority) ==
    /\ ret' = [op |-> "getAllSwapRequests", status |-> status, priority |-> priority,
               value |-> GetAllSwapRequestsResult(status, priority)]
    /\ UNCHANGED <<userVars, msgVars>>

----------------------------------------------------------------------------
(* ratingService; a user's rating is kept in tenths (4.5 is 45) *)

\* Math.round(averageRating * 10) / 10 of sum / count, in tenths
RoundedAverage(sum, count) == (20 * sum + count) \div (2 * count)

RECURSIVE SumRatings(_)
SumRatings(ratings) ==
    IF ratings = <<>> THEN 0 ELSE ratings[1].rating + SumRatings(Tail(ratings))

Reverse(s) == [i \in 1..Len(s) |-> s[Len(s) + 1 - i]]

\* getUserRatings: where("ratedUserId", "==", userId), orderBy createdAt desc
GetUserRatingsResult(ratings, userId) ==
    Reverse(SelectSeq(ratings, LAMBDA r : FieldEquals(r, "ratedUserId", userId)))

\* updateUserRating: the profile update, or none when there are no ratings
RatingUpdates(ratings) ==
    IF Len(ratings) > 0
    THEN [rating |-> RoundedAverage(SumRatings(ratings), Len(ratings)),
          reviewCount |-> Len(ratings)]
    ELSE <<>>

AddRating(ratingData) ==
    LET ratingId == Len(dbRatings) + 1
        inserted == Append(dbRatings,
                       Merge(ratingData, [exists |-> TRUE, createdAt |-> ratingId]))
        ratings == GetUserRatingsResult(inserted, ratingData.toUid)
    IN /\ Len(dbRatings) < MaxRatings
       /\ dbRatings' = inserted
       /\ dbUsers' = [dbUsers EXCEPT ![ratingData.toUid] =
                         IF Len(ratings) > 0 THEN Merge(@, RatingUpdates(ratings)) ELSE @]
       /\ ret' = [op |-> "addRating", toUid |-> ratingData.toUid, id |-> ratingId]
       /\ UNCHANGED <<dbSkills, dbSwapRequests, msgVars>>

GetUserRatings(userId) ==
    /\ ret' = [op |-> "getUserRatings", userId |-> userId,
               value |-> GetUserRatingsResult(dbRatings, userId)]
    /\ UNCHANGED <<userVars, msgVars>>

----------------------------------------------------------------------------
(* messageService: the conversations and messages of the first messaging   *)
(* page, kept in the same two collections                                  *)

\* createConversation: participants, the two timestamps, lastMessage: null
BaseConversationData(participants) ==
    [exists |-> TRUE, participants |-> participants, lastMessage |-> Null]

BaseCreateConversation(participants) ==
    /\ Len(dbConversations) < MaxConvs
    /\ dbConversations' = Append(dbConversations, BaseConversationData(participants))
    /\ ret' = [op |-> "baseCreateConversation", participants |-> participants,
               id |-> Len(dbConversations) + 1]
    /\ UNCHANGED <<dbMessages, dbNotifications, userVars>>

BaseMessageData(conversationId, senderId) ==
    [exists |-> TRUE, conversationId |-> conversationId, senderId |-> senderId,
     timeField |-> "createdAt", isRead |-> FALSE]

\* sendMessage: the message document, then the conversation's lastMessage
BaseSendMessage(conversationId, senderId) ==
    /\ Len(dbMessages) < MaxMsgs
    /\ Exists(dbConversations, conversationId)
    /\ dbMessages' = Append(dbMessages, BaseMessageData(conversationId, senderId))
    /\ dbConversations' = [dbConversations EXCEPT ![conversationId].lastMessage = senderId]
    /\ ret' = [op |-> "baseSendMessage", conversationId |-> conversationId,
               senderId |-> senderId, id |-> Len(dbMessages) + 1]
    /\ UNCHANGED <<dbNotifications, userVars>>

\* sendMessage into a conversation that does not exist: the message document
\* is written, then updateDoc on the conversation fails
BaseSendMessageNotFound(conversationId, senderId) ==
    /\ Len(dbMessages) < MaxMsgs
    /\ ~Exists(dbConversations, conversationId)
    /\ dbMessages' = Append(dbMessages, BaseMessageData(conversationId, senderId))
    /\ ret' = [op |-> "rejected", call |-> "baseSendMessage", message |-> "not-found"]
    /\ UNCHANGED <<dbConversations, dbNotifications, userVars>>

----------------------------------------------------------------------------
(* The list queries behind the load actions *)

\* the documents of a collection as { id, ...data }, in document order
ExistingDocs(coll) ==
    SelectSeq([n \in 1..Len(coll) |-> Merge(coll[n], [id |-> n])],
              LAMBDA d : d.exists)

FirstN(s, n) == IF Len(s) <= n THEN s ELSE SubSeq(s, 1, n)

NotificationLimit == 20

\* getUserNotifications: the user's notifications, newest first, at most 20
GetUserNotificationsResult(userId) ==
    FirstN(Reverse(SelectSeq(ExistingDocs(dbNotifications),
                             LAMBDA d : d.userId = userId)),
           NotificationLimit)

GetUserNotifications(userId) ==
    /\ ret' = [op |-> "getUserNotifications", userId |-> userId,
               value |-> GetUserNotificationsResult(userId)]
    /\ UNCHANGED <<userVars, msgVars>>

\* a notification as createNotification stores it
NotificationData(userId, type) ==
    [exists |-> TRUE, userId |-> userId, type |-> type, read |-> FALSE]

\* markNotificationAsRead: updateDoc needs the notification to exist
MarkNotificationAsRead(notificationId) ==
    /\ Exists(dbNotifications, notificationId)
    /\ dbNotifications' = [dbNotifications EXCEPT ![notificationId] =
                              Merge(@, [read |-> TRUE])]
    /\ ret' = [op |-> "markNotificationAsRead", notificationId |-> notificationId]
    /\ UNCHANGED <<userVars, dbConversations, dbMessages>>

\* markAllNotificationsAsRead: every unread notification of the user
MarkAllNotificationsAsRead(userId) ==
    /\ dbNotifications' =
          [n \in 1..Len(dbNotifications) |->
              IF /\ dbNotifications[n].exists
                 /\ dbNotifications[n].userId = userId
                 /\ dbNotifications[n].read = FALSE
              THEN Merge(dbNotifications[n], [read |-> TRUE])
              ELSE dbNotifications[n]]
    /\ ret' = [op |-> "markAllNotificationsAsRead", userId |-> userId]
    /\ UNCHANGED <<userVars, dbConversations, dbMessages>>

\* deleteNotification: deleteDoc succeeds whether or not the document exists
DeleteNotification(notificationId) ==
    /\ notificationId \in 1..Len(dbNotifications)
    /\ dbNotifications' = [dbNotifications EXCEPT ![notificationId] = NoDoc]
    /\ ret' = [op |-> "deleteNotification", notificationId |-> notificationId]
    /\ UNCHANGED <<userVars, dbConversations, dbMessages>>

NotificationSubscriptionLimit == 50

\* the snapshot of the query of subscribeToUserNotifications: the user's
\* notifications, newest first, at most 50
NotificationsSnapshot(userId) ==
    FirstN(Reverse(SelectSeq(ExistingDocs(dbNotifications),
                             LAMBDA d : d.userId = userId)),
           NotificationSubscriptionLimit)
\* the orders in which a query ordered by a field the model does not keep
\* (updatedAt) can return the documents
Orderings(docs) ==
    {[i \in 1..Len(docs) |-> docs[f[i]]] :
        f \in {g \in [1..Len(docs) -> 1..Len(docs)] :
                  \A a, b \in 1..Len(docs) : g[a] = g[b] => a = b}}

\* getUserConversations: the conversations the user takes part in, ordered
\* by updatedAt descending
GetUserConversations(userId) ==
    /\ \E value \in Orderings(SelectSeq(ExistingDocs(dbConversations),
                                        LAMBDA d : userId \in d.participants)) :
          ret' = [op |-> "getUserConversations", userId |-> userId, value |-> value]
    /\ UNCHANGED <<userVars, msgVars>>

\* getConversationMessages: the messages of the conversation that carry a
\* createdAt field (the query orders by it), oldest first
GetConversationMessagesResult(conversationId) ==
    SelectSeq(ExistingDocs(dbMessages),
              LAMBDA d : d.conversationId = conversationId /\ d.timeField = "createdAt")

GetConversationMessages(conversationId) ==
    /\ ret' = [op |-> "getConversationMessages", conversationId |-> conversationId,
               value |-> GetConversationMessagesResult(conversationId)]
    /\ UNCHANGED <<userVars, msgVars>>

\* getFlaggedContent: every flag, newest report first
GetFlaggedContentResult ==
    Reverse(ExistingDocs(dbFlaggedContent))

GetFlaggedContent ==
    /\ ret' = [op |-> "getFlaggedContent", value |-> GetFlaggedContentResult]
    /\ UNCHANGED <<userVars, msgVars>>

----------------------------------------------------------------------------
(* userService: flagged content, broadcasts and the admin subscription *)

MaxBroadcasts == 2
MaxSubs == 1

\* a flag as the admin page reads it: a report on a user, not yet reviewed
FlagData(userId) ==
    [exists |-> TRUE, type |-> "inappropriate_skill", userId |-> userId,
     reviewed |-> FALSE]

\* handleFlaggedContent: reject deletes the flag, approve marks it reviewed
\* (updateDoc needs the flag to exist)
HandleFlaggedContent(flagId, action) ==
    /\ flagId \in 1..Len(dbFlaggedContent)
    /\ action = "reject" \/ dbFlaggedContent[flagId].exists
    /\ dbFlaggedContent' =
          [dbFlaggedContent EXCEPT ![flagId] =
              IF action = "reject" THEN NoDoc
              ELSE Merge(@, [reviewed |-> TRUE, reviewedAt |-> "serverTimestamp",
                             action |-> "approved"])]
    /\ ret' = [op |-> "handleFlaggedContent", flagId |-> flagId, action |-> action]
    /\ UNCHANGED <<userVars, msgVars, dbSystemMessages, listeners, views>>

\* a broadcast as addDoc writes it.  createdAt is the time the server gives
\* it (the documents' creation order); until the server has acknowledged
\* the write, the writer's own snapshots show a null createdAt
BroadcastData(message, type, acknowledged) ==
    [exists |-> TRUE, content |-> message, type |-> type, isActive |-> TRUE,
     createdAt |-> Len(dbSystemMessages) + 1, acknowledged |-> acknowledged]

\* sendBroadcastMessage, the write acknowledged at once
SendBroadcastMessage(message, type) ==
    /\ Len(dbSystemMessages) < MaxBroadcasts
    /\ dbSystemMessages' =
          Append(dbSystemMessages, BroadcastData(message, type, TRUE))
    /\ ret' = [op |-> "sendBroadcastMessage", id |-> Len(dbSystemMessages) + 1]
    /\ UNCHANGED <<userVars, msgVars, dbFlaggedContent, listeners, views>>

SystemMessageLimit == 10

\* the snapshot of flaggedContentQuery: every flag, newest report first
FlaggedContentSnapshot == GetFlaggedContentResult

\* sendBroadcastMessage in two steps: addDoc writes to the local cache, where
\* the listeners of this client see the document at once, and the server
\* acknowledges the write later
AddBroadcastLocally(message, type) ==
    /\ Len(dbSystemMessages) < MaxBroadcasts
    /\ dbSystemMessages' =
          Append(dbSystemMessages, BroadcastData(message, type, FALSE))
    /\ ret' = [op |-> "addDoc", id |-> Len(dbSystemMessages) + 1]
    /\ UNCHANGED <<userVars, msgVars, dbFlaggedContent, listeners, views>>

BroadcastAcknowledged(id) ==
    /\ Exists(dbSystemMessages, id)
    /\ ~dbSystemMessages[id].acknowledged
    /\ dbSystemMessages' = [dbSystemMessages EXCEPT ![id].acknowledged = TRUE]
    /\ ret' = [op |-> "sendBroadcastMessage", id |-> id]
    /\ UNCHANGED <<userVars, msgVars, dbFlaggedContent, listeners, views>>

\* a.createdAt?.toMillis ? a.createdAt.toMillis() : a.createdAt || 0
CreatedAtMillis(message) ==
    IF message.acknowledged THEN message.createdAt ELSE 0

\* .sort((a, b) => bTime - aTime): stable, descending
RECURSIVE SortSystemMessages(_)
SortSystemMessages(messages) ==
    IF Len(messages) <= 1 THEN messages
    ELSE LET sorted == SortSystemMessages(SubSeq(messages, 1, Len(messages) - 1))
             last == messages[Len(messages)]
             k == Cardinality({i \in 1..Len(sorted) :
                     CreatedAtMillis(sorted[i]) >= CreatedAtMillis(last)})
         IN SubSeq(sorted, 1, k) \o <<last>> \o SubSeq(sorted, k + 1, Len(sorted))

\* the documents of systemMessagesQuery in document order
ActiveSystemMessages ==
    FirstN(SelectSeq(ExistingDocs(dbSystemMessages), LAMBDA d : d.isActive),
           SystemMessageLimit)

\* the snapshot of systemMessagesQuery, sorted by createdAt descending
SystemMessagesSnapshot == SortSystemMessages(ActiveSystemMessages)

\* what a listener has delivered before its first snapshot
NotDelivered == [delivered |-> FALSE]

\* the two listeners of one subscribeToAdminData call: whether each is
\* attached, the snapshot each delivered last, and whether the handle the
\* call returned has been invoked
NewSubscription ==
    [kind |-> "admin", flagged |-> TRUE, messages |-> TRUE, invoked |-> FALSE,
     flaggedSeen |-> NotDelivered, messagesSeen |-> NotDelivered]

UnsubscribeFlaggedOnly(subscription) ==
    Merge(subscription, [flagged |-> FALSE, invoked |-> TRUE])

\* the combined unsubscribe function: unsubscribeFlagged(); unsubscribeMessages()
CombinedUnsubscribe(subscription) ==
    Merge(subscription, [flagged |-> FALSE, messages |-> FALSE, invoked |-> TRUE])

\* the handle returned by subscribeToAdminData is invoked
InvokeHandle(s) ==
    /\ s \in 1..Len(listeners)
    /\ listeners' = [listeners EXCEPT ![s] = CombinedUnsubscribe(@)]
    /\ ret' = [op |-> "unsubscribe", subscription |-> s]
    /\ UNCHANGED <<userVars, msgVars, dbFlaggedContent, dbSystemMessages, views,
                 storeVars>>

\* the payloads the two listeners hand to the callback
FlaggedContentPayload(flaggedContent) ==
    [type |-> "flaggedContent", data |-> flaggedContent]

SystemMessagesPayload(systemMessages) ==
    [type |-> "systemMessages", data |-> systemMessages]

----------------------------------------------------------------------------
(* useFirebaseStore: the cache and its actions.  An action runs in three   *)
(* steps: it clears the error slot (and raises its loading flag) and      *)
(* issues the remote call; the remote call resolves or rejects; the       *)
(* continuation patches the cache, or the catch block records the error,   *)
(* and the finally block lowers the loading flag.                          *)

initialState ==
    [users |-> <<>>, currentUserProfile |-> NoDoc, isLoadingUsers |-> FALSE,
     userSkills |-> [offered |-> <<>>, wanted |-> <<>>], isLoadingSkills |-> FALSE,
     swapRequests |-> <<>>, adminRequests |-> <<>>, isLoadingRequests |-> FALSE,
     conversations |-> <<>>, messages |-> <<>>, activeConversation |-> Null,
     isLoadingMessages |-> FALSE, notifications |-> <<>>,
     unreadNotificationCount |-> 0, isLoadingNotifications |-> FALSE,
     searchQuery |-> "", selectedCategory |-> "", selectedLocation |-> "",
     searchResults |-> <<>>, error |-> Null, flaggedContent |-> <<>>,
     systemMessages |-> <<>>, isLoadingAdminData |-> FALSE]

LoadingFlags == {"isLoadingUsers", "isLoadingSkills", "isLoadingRequests",
                 "isLoadingMessages", "isLoadingNotifications", "isLoadingAdminData"}

Idle == [pc |-> "idle"]

\* Date.now(): the reading of the client clock
DateNow == 0

\* the loading flag an action raises, None for an action that raises none
LoadingFlag(op) ==
    CASE op = "loadUsers" -> "isLoadingUsers"
      [] op = "loadUserSkills" -> "isLoadingSkills"
      [] op = "loadSwapRequests" -> "isLoadingRequests"
      [] op = "loadAdminRequests" -> "isLoadingRequests"
      [] op = "loadAllUsers" -> "isLoadingUsers"
      [] op = "loadConversations" -> "isLoadingMessages"
      [] op = "loadNotifications" -> "isLoadingNotifications"
      [] op = "loadFlaggedContent" -> "isLoadingAdminData"
      [] OTHER -> None

\* the message of the catch block when the error carries none
Fallback(op) ==
    CASE op = "loadUsers" -> "Failed to load users"
      [] op = "loadSwapRequests" -> "Failed to load requests"
      [] op = "loadConversations" -> "Failed to load conversations"
      [] op = "loadMessages" -> "Failed to load messages"
      [] op = "loadAdminRequests" -> "Failed to load admin requests"
      [] op = "loadAllUsers" -> "Failed to load users"
      [] op = "banUser" -> "Failed to ban user"
      [] op = "unbanUser" -> "Failed to unban user"
      [] op = "sendBroadcastMessage" -> "Failed to send broadcast message"
      [] op = "addRating" -> "Failed to add rating"
      [] op = "editMessage" -> "Failed to edit message"
      [] op = "deleteMessage" -> "Failed to delete message"
      [] op = "markNotificationAsRead" -> "Failed to mark notification as read"
      [] op = "markAllNotificationsAsRead" ->
            "Failed to mark all notifications as read"
      [] op = "deleteNotification" -> "Failed to delete notification"
      [] op = "loadNotifications" -> "Failed to load notifications"
      [] op = "loadFlaggedContent" -> "Failed to load flagged content"
      [] op = "loadCurrentUserProfile" -> "Failed to load profile"
      [] op = "sendMessage" -> "Failed to send message"
      [] op = "createConversation" -> "Failed to create conversation"
      [] op = "addMessageReaction" -> "Failed to add message reaction"
      [] op = "loadUserSkills" -> "Failed to load skills"
      [] op = "addSkill" -> "Failed to add skill"
      [] op = "removeSkill" -> "Failed to remove skill"
      [] op = "createSwapRequest" -> "Failed to create request"
      [] op = "updateSwapRequestStatus" -> "Failed to update request"
      [] op = "sendEnhancedMessage" -> "Failed to send enhanced message"

\* error.message || fallback
ErrorText(message, fallback) == IF message # "" THEN message ELSE fallback

\* the first set() of an action
TryPatch(op) ==
    IF LoadingFlag(op) = None THEN [error |-> Null]
    ELSE (LoadingFlag(op) :> TRUE) @@ [error |-> Null]

CatchPatchResettingSkills(op, message) ==
    [error |-> ErrorText(message, Fallback(op)),
     userSkills |-> [offered |-> <<>>, wanted |-> <<>>]]

\* the set() of the catch block
CatchPatch(op, message) == [error |-> ErrorText(message, Fallback(op))]

FinallyPatchMissing(op) == <<>>

\* the set() of the finally block, if the action has one
FinallyPatch(op) ==
    IF LoadingFlag(op) = None THEN <<>> ELSE (LoadingFlag(op) :> FALSE)

\* get().currentUserProfile?.id || ""
CurrentUserId(state) ==
    IF state.currentUserProfile.exists THEN state.currentUserProfile.id ELSE ""

\* arr.filter(x => x.id !== id)
WithoutId(items, id) == SelectSeq(items, LAMBDA x : x.id # id)

\* loadUserSkills: the bucket of the type asked for; with no type the result
\* goes to offered and wanted is emptied
LoadUserSkillsPatch(state, call) ==
    IF call.type = "offered" THEN [state EXCEPT !.userSkills.offered = call.result]
    ELSE IF call.type = "wanted" THEN [state EXCEPT !.userSkills.wanted = call.result]
    ELSE [state EXCEPT !.userSkills = [offered |-> call.result, wanted |-> <<>>]]

\* { ...skill, id: skillId, userId, type }
NewSkill(call) ==
    [kind |-> "object", id |-> call.result, name |-> call.skill.name,
     category |-> call.skill.category, userId |-> call.userId, type |-> call.type]

AddSkillPatchReplacingBuckets(state, call) ==
    [state EXCEPT !.userSkills =
        IF call.type = "offered"
        THEN [offered |-> <<NewSkill(call)>>, wanted |-> <<>>]
        ELSE [offered |-> <<>>, wanted |-> <<NewSkill(call)>>]]

\* addSkill: push onto the bucket of the state the patch is applied to
AddSkillPatch(state, call) ==
    IF call.type = "offered"
    THEN [state EXCEPT !.userSkills.offered = Append(@, NewSkill(call))]
    ELSE [state EXCEPT !.userSkills.wanted = Append(@, NewSkill(call))]

RemoveSkillPatch(state, call) ==
    IF call.type = "offered"
    THEN [state EXCEPT !.userSkills.offered = WithoutId(@, call.skillId)]
    ELSE [state EXCEPT !.userSkills.wanted = WithoutId(@, call.skillId)]

\* { ...requestData, id: requestId, createdAt: Date.now(), updatedAt: Date.now() }
NewRequest(call) ==
    Merge(call.requestData,
          [id |-> call.result, createdAt |-> DateNow, updatedAt |-> DateNow])

CreateSwapRequestPatch(state, call) ==
    [state EXCEPT !.swapRequests = Append(@, NewRequest(call))]

\* the entries with the request's id get the status, the time and the notes
WithStatus(requests, call) ==
    [k \in 1..Len(requests) |->
        IF requests[k].id = call.requestId
        THEN Merge(requests[k], StatusUpdates(call.status, call.adminNotes, DateNow))
        ELSE requests[k]]

UpdateSwapRequestStatusPatch(state, call) ==
    [state EXCEPT !.swapRequests = WithStatus(@, call),
                  !.adminRequests = WithStatus(@, call)]

\* the message object sendEnhancedMessage adds to the cache
NewMessage(state, call) ==
    [id |-> call.result, conversationId |-> call.conversationId,
     senderId |-> CurrentUserId(state), timestamp |-> DateNow, read |-> FALSE,
     edited |-> FALSE, reactions |-> <<>>]

SendEnhancedMessagePatch(state, call) ==
    LET bucket == IF call.conversationId \in DOMAIN state.messages
                  THEN state.messages[call.conversationId] ELSE <<>>
    IN [state EXCEPT !.messages =
           MapSet(@, call.conversationId, Append(bucket, NewMessage(state, call)))]

\* loadUsers: set({ users, searchResults: users })
LoadUsersPatch(state, call) ==
    [state EXCEPT !.users = call.result, !.searchResults = call.result]

\* loadCurrentUserProfile: set({ currentUserProfile: profile })
LoadCurrentUserProfilePatch(state, call) ==
    [state EXCEPT !.currentUserProfile = call.result]

\* the message object sendMessage adds to the cache
SentMessage(call) ==
    [id |-> call.result, conversationId |-> call.conversationId,
     senderId |-> call.senderId, timestamp |-> DateNow, read |-> FALSE,
     edited |-> FALSE, reactions |-> <<>>]

SendMessagePatch(state, call) ==
    LET bucket == IF call.conversationId \in DOMAIN state.messages
                  THEN state.messages[call.conversationId] ELSE <<>>
    IN [state EXCEPT !.messages =
           MapSet(@, call.conversationId, Append(bucket, SentMessage(call)))]

\* the cached conversations whose bucket holds the message id
BucketsWith(messages, messageId) ==
    {c \in DOMAIN messages :
        \E k \in 1..Len(messages[c]) : messages[c][k].id = messageId}

EditedBucketReplacingEntry(bucket, call) ==
    LET k == CHOOSE k \in 1..Len(bucket) :
                /\ bucket[k].id = call.messageId
                /\ \A j \in 1..(k - 1) : bucket[j].id # call.messageId
    IN [bucket EXCEPT ![k] = [id |-> call.messageId, content |-> call.newContent,
                              edited |-> TRUE]]

\* the first entry of the bucket with the id takes the new content
EditedBucket(bucket, call) ==
    LET k == CHOOSE k \in 1..Len(bucket) :
                /\ bucket[k].id = call.messageId
                /\ \A j \in 1..(k - 1) : bucket[j].id # call.messageId
    IN [bucket EXCEPT ![k] = Merge(@, [content |-> call.newContent, edited |-> TRUE])]

EditMessagePatchOnFirstBucket(state, call) ==
    LET found == BucketsWith(state.messages, call.messageId)
        c == IF found = {} THEN CHOOSE d \in DOMAIN state.messages : TRUE
             ELSE CHOOSE d \in found : \A e \in found : d <= e
    IN IF DOMAIN state.messages = {} THEN state
       ELSE [state EXCEPT !.messages =
               MapSet(@, c, [k \in 1..Len(@[c]) |->
                               Merge(@[c][k], [content |-> call.newContent,
                                               edited |-> TRUE])])]

\* editMessage: the message is looked up in the first cached bucket that
\* holds its id; nothing is patched when no bucket holds it
EditMessagePatch(state, call) ==
    LET found == BucketsWith(state.messages, call.messageId)
    IN IF found = {} THEN state
       ELSE LET c == CHOOSE d \in found : \A e \in found : d <= e
            IN [state EXCEPT !.messages = MapSet(@, c, EditedBucket(@[c], call))]

\* deleteMessage: every bucket is filtered
DeleteMessagePatch(state, call) ==
    [state EXCEPT !.messages =
        [c \in DOMAIN @ |-> WithoutId(@[c], call.messageId)]]

\* markNotificationAsRead: state.notifications.find(n => n.id === id), and
\* read = true on the notification found
MarkNotificationAsReadPatch(state, call) ==
    LET hits == {n \in 1..Len(state.notifications) :
                    state.notifications[n].id = call.notificationId}
    IN IF hits = {} THEN state
       ELSE LET first == CHOOSE n \in hits : \A m \in hits : n <= m
            IN [state EXCEPT !.notifications[first] = Merge(@, [read |-> TRUE])]

MarkAllNotificationsAsReadPatch(state, call) ==
    [state EXCEPT !.notifications =
        [n \in 1..Len(state.notifications) |->
            Merge(state.notifications[n], [read |-> TRUE])]]

DeleteNotificationPatch(state, call) ==
    [state EXCEPT !.notifications = WithoutId(@, call.notificationId)]
\* state.users.findIndex(u => u.id === userId), -1 as 0
FindUserIndex(users, userId) ==
    LET hits == {n \in 1..Len(users) : users[n].id = userId}
    IN IF hits = {} THEN 0 ELSE CHOOSE n \in hits : \A m \in hits : n <= m

\* banUser: state.users[userIndex].isBanned = true
BanUserPatch(state, call) ==
    LET userIndex == FindUserIndex(state.users, call.userId)
    IN IF userIndex = 0 THEN state
       ELSE [state EXCEPT !.users[userIndex] = Merge(@, [isBanned |-> TRUE])]

\* unbanUser: state.users[userIndex].isBanned = false
UnbanUserPatch(state, call) ==
    LET userIndex == FindUserIndex(state.users, call.userId)
    IN IF userIndex = 0 THEN state
       ELSE [state EXCEPT !.users[userIndex] = Merge(@, [isBanned |-> FALSE])]

\* loadMessages: state.messages[conversationId] = messages
LoadMessagesPatch(state, call) ==
    [state EXCEPT !.messages = MapSet(@, call.conversationId, call.result)]

\* the conversation object createConversation adds to the cache
NewConversation(call) ==
    [id |-> call.result, participants |-> call.participants, createdAt |-> DateNow,
     updatedAt |-> DateNow, lastMessage |-> Null, type |-> "direct"]

CreateConversationPatch(state, call) ==
    [state EXCEPT !.conversations = Append(@, NewConversation(call))]

\* the set() after the await of an action whose remote call resolved
ThenPatch(state, call) ==
    CASE call.op = "loadUsers" -> LoadUsersPatch(state, call)
      [] call.op = "loadSwapRequests" -> [state EXCEPT !.swapRequests = call.result]
      [] call.op = "loadConversations" -> [state EXCEPT !.conversations = call.result]
      [] call.op = "loadMessages" -> LoadMessagesPatch(state, call)
      [] call.op = "loadAdminRequests" -> [state EXCEPT !.adminRequests = call.result]
      [] call.op = "loadAllUsers" -> LoadUsersPatch(state, call)
      [] call.op = "banUser" -> BanUserPatch(state, call)
      [] call.op = "unbanUser" -> UnbanUserPatch(state, call)
      [] call.op = "sendBroadcastMessage" -> state
      [] call.op = "loadNotifications" -> [state EXCEPT !.notifications = call.result]
      [] call.op = "loadFlaggedContent" -> [state EXCEPT !.flaggedContent = call.result]
      [] call.op = "loadCurrentUserProfile" -> LoadCurrentUserProfilePatch(state, call)
      [] call.op = "sendMessage" -> SendMessagePatch(state, call)
      [] call.op = "createConversation" -> CreateConversationPatch(state, call)
      [] call.op = "addMessageReaction" -> state
      [] call.op = "addRating" -> state
      [] call.op = "editMessage" -> EditMessagePatch(state, call)
      [] call.op = "deleteMessage" -> DeleteMessagePatch(state, call)
      [] call.op = "markNotificationAsRead" -> MarkNotificationAsReadPatch(state, call)
      [] call.op = "markAllNotificationsAsRead" ->
            MarkAllNotificationsAsReadPatch(state, call)
      [] call.op = "deleteNotification" -> DeleteNotificationPatch(state, call)
      [] call.op = "loadUserSkills" -> LoadUserSkillsPatch(state, call)
      [] call.op = "addSkill" -> AddSkillPatch(state, call)
      [] call.op = "removeSkill" -> RemoveSkillPatch(state, call)
      [] call.op = "createSwapRequest" -> CreateSwapRequestPatch(state, call)
      [] call.op = "updateSwapRequestStatus" -> UpdateSwapRequestStatusPatch(state, call)
      [] call.op = "sendEnhancedMessage" -> SendEnhancedMessagePatch(state, call)

RethrowsNothing(op) == FALSE

\* the catch block ends with throw error
Rethrows(op) == op = "createConversation"

\* what the caller of the action sees when the action has run to its end
Settled(call) ==
    LET remoteFailed == call.pc = "rejected" IN
    [op |-> "settled", action |-> call.op, remoteFailed |-> remoteFailed,
     outcome |-> IF remoteFailed /\ Rethrows(call.op) THEN "rejected" ELSE "fulfilled",
     message |-> IF remoteFailed THEN call.message ELSE Null]

\* the synchronous head of an action: set({ error: null, ... }) and the
\* remote call issued; the call takes the lowest free slot
Begin(i, call) ==
    /\ calls[i] = Idle
    /\ \A j \in 1..(i - 1) : calls[j] # Idle
    /\ store' = Merge(store, TryPatch(call.op))
    /\ calls' = [calls EXCEPT ![i] = Merge(call, [pc |-> "pending"])]
    /\ UNCHANGED <<userVars, msgVars, adminVars, ret>>

LoadUserSkills(i, userId, type) ==
    Begin(i, [op |-> "loadUserSkills", userId |-> userId, type |-> type])

AddSkill(i, userId, skill, type) ==
    Begin(i, [op |-> "addSkill", userId |-> userId, skill |-> skill, type |-> type])

RemoveSkill(i, userId, skillId, type) ==
    Begin(i, [op |-> "removeSkill", userId |-> userId, skillId |-> skillId,
              type |-> type])

StoreCreateSwapRequest(i, requestData) ==
    Begin(i, [op |-> "createSwapRequest", requestData |-> requestData])

StoreUpdateSwapRequestStatus(i, requestId, status, adminNotes) ==
    Begin(i, [op |-> "updateSwapRequestStatus", requestId |-> requestId,
              status |-> status, adminNotes |-> adminNotes])

\* the sender is read from the cache when the call is issued
SendEnhancedMessage(i, conversationId) ==
    Begin(i, [op |-> "sendEnhancedMessage", conversationId |-> conversationId,
              senderId |-> CurrentUserId(store)])

\* loadUsers calls searchUsers with verifiedOnly left at its default, true
LoadUsers(i, category, location) ==
    Begin(i, [op |-> "loadUsers", category |-> category, location |-> location])

LoadSwapRequests(i, userId, type) ==
    Begin(i, [op |-> "loadSwapRequests", userId |-> userId, type |-> type])

LoadConversations(i, userId) ==
    Begin(i, [op |-> "loadConversations", userId |-> userId])

\* loadNotifications: without a current user the action returns from its try
\* block after its first set(); the finally block runs
LoadNotifications(i) ==
    IF CurrentUserId(store) = ""
    THEN /\ store' = Merge(Merge(store, TryPatch("loadNotifications")),
                           FinallyPatch("loadNotifications"))
         /\ ret' = [op |-> "settled", action |-> "loadNotifications",
                    remoteFailed |-> FALSE, outcome |-> "fulfilled", message |-> Null]
         /\ UNCHANGED <<calls, userVars, msgVars, adminVars>>
    ELSE Begin(i, [op |-> "loadNotifications", userId |-> CurrentUserId(store)])

LoadFlaggedContent(i) == Begin(i, [op |-> "loadFlaggedContent"])

LoadCurrentUserProfile(i, userId) ==
    Begin(i, [op |-> "loadCurrentUserProfile", userId |-> userId])

\* addRating; the service call it awaits runs in three remote steps
StoreAddRating(i, ratingData) ==
    Begin(i, [op |-> "addRating", ratingData |-> ratingData, step |-> "addDoc"])

StoreEditMessage(i, messageId, newContent) ==
    Begin(i, [op |-> "editMessage", messageId |-> messageId,
              newContent |-> newContent])

StoreDeleteMessage(i, messageId) ==
    Begin(i, [op |-> "deleteMessage", messageId |-> messageId])

LoadAdminRequests(i) == Begin(i, [op |-> "loadAdminRequests"])

LoadAllUsers(i) == Begin(i, [op |-> "loadAllUsers"])

StoreBanUser(i, userId, reason) ==
    Begin(i, [op |-> "banUser", userId |-> userId, reason |-> reason])

StoreUnbanUser(i, userId) == Begin(i, [op |-> "unbanUser", userId |-> userId])

StoreSendBroadcastMessage(i, message, type) ==
    Begin(i, [op |-> "sendBroadcastMessage", text |-> message, type |-> type])

StoreMarkNotificationAsRead(i, notificationId) ==
    Begin(i, [op |-> "markNotificationAsRead", notificationId |-> notificationId])

\* markAllNotificationsAsRead: without a current user the action returns
\* from its try block after set({ error: null })
StoreMarkAllNotificationsAsRead(i) ==
    IF CurrentUserId(store) = ""
    THEN /\ store' = Merge(store, TryPatch("markAllNotificationsAsRead"))
         /\ ret' = [op |-> "settled", action |-> "markAllNotificationsAsRead",
                    remoteFailed |-> FALSE, outcome |-> "fulfilled", message |-> Null]
         /\ UNCHANGED <<userVars, msgVars, adminVars, calls>>
    ELSE Begin(i, [op |-> "markAllNotificationsAsRead",
                   userId |-> CurrentUserId(store)])

StoreDeleteNotification(i, notificationId) ==
    Begin(i, [op |-> "deleteNotification", notificationId |-> notificationId])

LoadMessages(i, conversationId) ==
    Begin(i, [op |-> "loadMessages", conversationId |-> conversationId])

StoreSendMessage(i, conversationId, senderId) ==
    Begin(i, [op |-> "sendMessage", conversationId |-> conversationId,
              senderId |-> senderId])

StoreCreateConversation(i, participants) ==
    Begin(i, [op |-> "createConversation", participants |-> participants])

\* addMessageReaction: without a current user the action throws inside its
\* try block and the catch block records the error; no remote call is made
StoreAddMessageReaction(i, messageId, emoji) ==
    IF CurrentUserId(store) = ""
    THEN /\ store' = Merge(Merge(store, TryPatch("addMessageReaction")),
                           CatchPatch("addMessageReaction", "User not authenticated"))
         /\ ret' = [op |-> "settled", action |-> "addMessageReaction",
                    remoteFailed |-> FALSE, outcome |-> "fulfilled",
                    message |-> "User not authenticated"]
         /\ UNCHANGED <<calls, userVars, msgVars, adminVars>>
    ELSE /\ Begin(i, [op |-> "addMessageReaction", messageId |-> messageId,
                      emoji |-> emoji, userId |-> CurrentUserId(store)])

\* two addSkill calls issued in the same tick
AddSkillTwice(userId, first, second) ==
    /\ calls[1] = Idle /\ calls[2] = Idle
    /\ store' = Merge(Merge(store, TryPatch("addSkill")), TryPatch("addSkill"))
    /\ calls' = [calls EXCEPT
          ![1] = [pc |-> "pending", op |-> "addSkill", userId |-> userId,
                  skill |-> first.skill, type |-> first.type],
          ![2] = [pc |-> "pending", op |-> "addSkill", userId |-> userId,
                  skill |-> second.skill, type |-> second.type]]
    /\ UNCHANGED <<userVars, msgVars, adminVars, ret>>

Pending(i, op) == calls[i].pc = "pending" /\ calls[i].op = op

\* the awaited promise resolves with the value the service returns
Resolve(i, value) ==
    /\ calls' = [calls EXCEPT ![i] = Merge(@, [pc |-> "resolved", result |-> value])]
    /\ UNCHANGED <<store, adminVars>>

GetUserSkillsRemote(i) ==
    /\ Pending(i, "loadUserSkills")
    /\ GetUserSkills(calls[i].userId, calls[i].type)
    /\ Resolve(i, ret'.value)

AddSkillRemote(i) ==
    /\ Pending(i, "addSkill")
    /\ AddSkillToUser(calls[i].userId, calls[i].skill, calls[i].type)
    /\ Resolve(i, ret'.id)

RemoveSkillRemote(i) ==
    /\ Pending(i, "removeSkill")
    /\ RemoveSkillFromUser(calls[i].userId, calls[i].skillId, calls[i].type)
    /\ Resolve(i, Null)

CreateSwapRequestRemote(i) ==
    /\ Pending(i, "createSwapRequest")
    /\ CreateSwapRequest(calls[i].requestData)
    /\ Resolve(i, ret'.id)

UpdateSwapRequestStatusRemote(i) ==
    /\ Pending(i, "updateSwapRequestStatus")
    /\ UpdateSwapRequestStatus(calls[i].requestId, calls[i].status, calls[i].adminNotes)
    /\ Resolve(i, Null)

SendMessageRemote(i) ==
    /\ Pending(i, "sendEnhancedMessage")
    /\ EnhancedSendMessage(calls[i].conversationId, calls[i].senderId)
    /\ Resolve(i, ret'.id)

SearchUsersRemote(i) ==
    /\ Pending(i, "loadUsers")
    /\ SearchUsers(calls[i].category, calls[i].location, TRUE)
    /\ Resolve(i, ret'.value)

GetUserSwapRequestsRemote(i) ==
    /\ Pending(i, "loadSwapRequests")
    /\ GetUserSwapRequests(calls[i].userId, calls[i].type)
    /\ Resolve(i, ret'.value)

GetUserConversationsRemote(i) ==
    /\ Pending(i, "loadConversations")
    /\ GetUserConversations(calls[i].userId)
    /\ Resolve(i, ret'.value)

GetUserNotificationsRemote(i) ==
    /\ Pending(i, "loadNotifications")
    /\ GetUserNotifications(calls[i].userId)
    /\ Resolve(i, ret'.value)

GetFlaggedContentRemote(i) ==
    /\ Pending(i, "loadFlaggedContent")
    /\ GetFlaggedContent
    /\ Resolve(i, ret'.value)

GetUserProfileRemote(i) ==
    /\ Pending(i, "loadCurrentUserProfile")
    /\ GetUserProfile(calls[i].userId)
    /\ Resolve(i, ret'.value)

BaseSendMessageRemote(i) ==
    /\ Pending(i, "sendMessage")
    /\ BaseSendMessage(calls[i].conversationId, calls[i].senderId)
    /\ Resolve(i, ret'.id)

BaseCreateConversationRemote(i) ==
    /\ Pending(i, "createConversation")
    /\ BaseCreateConversation(calls[i].participants)
    /\ Resolve(i, ret'.id)

\* ratingService.addRating, first await: the rating document is added
AddRatingInsert(i) ==
    /\ Pending(i, "addRating")
    /\ calls[i].step = "addDoc"
    /\ Len(dbRatings) < MaxRatings
    /\ dbRatings' = Append(dbRatings,
                           Merge(calls[i].ratingData,
                                 [exists |-> TRUE, createdAt |-> Len(dbRatings) + 1]))
    /\ calls' = [calls EXCEPT ![i] =
                    Merge(@, [step |-> "getUserRatings", ratingId |-> Len(dbRatings) + 1])]
    /\ ret' = [op |-> "addDoc", id |-> Len(dbRatings) + 1]
    /\ UNCHANGED <<dbUsers, dbSkills, dbSwapRequests, msgVars, adminVars, store>>

\* updateUserRating, first await: the ratings of the target are read
AddRatingRead(i) ==
    /\ Pending(i, "addRating")
    /\ calls[i].step = "getUserRatings"
    /\ calls' = [calls EXCEPT ![i] =
                    Merge(@, [step |-> "updateUserProfile",
                              ratings |-> GetUserRatingsResult(dbRatings,
                                              calls[i].ratingData.toUid)])]
    /\ ret' = [op |-> "getUserRatings", userId |-> calls[i].ratingData.toUid,
               value |-> GetUserRatingsResult(dbRatings, calls[i].ratingData.toUid)]
    /\ UNCHANGED <<userVars, msgVars, adminVars, store>>

\* updateUserRating, second await: the aggregate is written if any rating was
\* read; addRating then returns the id of the rating document
AddRatingWrite(i) ==
    /\ Pending(i, "addRating")
    /\ calls[i].step = "updateUserProfile"
    /\ dbUsers' = [dbUsers EXCEPT ![calls[i].ratingData.toUid] =
                      IF Len(calls[i].ratings) > 0
                      THEN Merge(@, RatingUpdates(calls[i].ratings)) ELSE @]
    /\ ret' = [op |-> "addRating", toUid |-> calls[i].ratingData.toUid,
               id |-> calls[i].ratingId]
    /\ Resolve(i, calls[i].ratingId)
    /\ UNCHANGED <<dbSkills, dbSwapRequests, dbRatings, msgVars>>

EditMessageRemote(i) ==
    /\ Pending(i, "editMessage")
    /\ EditMessage(calls[i].messageId, calls[i].newContent)
    /\ Resolve(i, Null)

DeleteMessageRemote(i) ==
    /\ Pending(i, "deleteMessage")
    /\ DeleteMessage(calls[i].messageId)
    /\ Resolve(i, Null)

MarkNotificationAsReadRemote(i) ==
    /\ Pending(i, "markNotificationAsRead")
    /\ MarkNotificationAsRead(calls[i].notificationId)
    /\ Resolve(i, Null)

MarkAllNotificationsAsReadRemote(i) ==
    /\ Pending(i, "markAllNotificationsAsRead")
    /\ MarkAllNotificationsAsRead(calls[i].userId)
    /\ Resolve(i, Null)

DeleteNotificationRemote(i) ==
    /\ Pending(i, "deleteNotification")
    /\ DeleteNotification(calls[i].notificationId)
    /\ Resolve(i, Null)

SearchAllUsersIncludingBannedRemote(i) ==
    /\ Pending(i, "loadAllUsers")
    /\ SearchAllUsersIncludingBanned
    /\ Resolve(i, ret'.value)

BanUserRemote(i) ==
    /\ Pending(i, "banUser")
    /\ BanUser(calls[i].userId, calls[i].reason)
    /\ Resolve(i, Null)

UnbanUserRemote(i) ==
    /\ Pending(i, "unbanUser")
    /\ UnbanUser(calls[i].userId)
    /\ Resolve(i, Null)

SendBroadcastMessageRemote(i) ==
    /\ Pending(i, "sendBroadcastMessage")
    /\ SendBroadcastMessage(calls[i].text, calls[i].type)
    /\ calls' = [calls EXCEPT ![i] = Merge(@, [pc |-> "resolved", result |-> Null])]
    /\ UNCHANGED store

GetAllSwapRequestsRemote(i) ==
    /\ Pending(i, "loadAdminRequests")
    /\ GetAllSwapRequests(None, None)
    /\ Resolve(i, ret'.value)

GetConversationMessagesRemote(i) ==
    /\ Pending(i, "loadMessages")
    /\ GetConversationMessages(calls[i].conversationId)
    /\ Resolve(i, ret'.value)

AddMessageReactionRemote(i) ==
    /\ Pending(i, "addMessageReaction")
    /\ AddMessageReaction(calls[i].messageId, calls[i].emoji, calls[i].userId)
    /\ Resolve(i, Null)

\* the awaited promise rejects with an error carrying the message
Reject(i, message) ==
    /\ calls' = [calls EXCEPT ![i] = Merge(@, [pc |-> "rejected", message |-> message])]
    /\ ret' = [op |-> "rejected", call |-> calls[i].op, message |-> message]
    /\ UNCHANGED <<store, userVars, msgVars, adminVars>>

\* any remote call can fail: the network is down, the rules deny the access
RemoteFails(i, message) ==
    /\ calls[i].pc = "pending"
    /\ Reject(i, message)

\* updateDoc rejects when the request document does not exist
UpdateOfMissingRequestFails(i) ==
    /\ Pending(i, "updateSwapRequestStatus")
    /\ ~Exists(dbSwapRequests, calls[i].requestId)
    /\ Reject(i, "not-found")

\* updateDoc rejects when the message document does not exist
EditOfMissingMessageFails(i) ==
    /\ Pending(i, "editMessage")
    /\ ~Exists(dbMessages, calls[i].messageId)
    /\ Reject(i, "not-found")

\* updateDoc rejects when the notification document does not exist
MarkOfMissingNotificationFails(i) ==
    /\ Pending(i, "markNotificationAsRead")
    /\ ~Exists(dbNotifications, calls[i].notificationId)
    /\ Reject(i, "not-found")

\* sendMessage into a conversation that does not exist
SendToMissingConversationFails(i) ==
    /\ Pending(i, "sendMessage")
    /\ BaseSendMessageNotFound(calls[i].conversationId, calls[i].senderId)
    /\ calls' = [calls EXCEPT ![i] = Merge(@, [pc |-> "rejected", message |-> "not-found"])]
    /\ UNCHANGED <<store, adminVars>>

\* reset: set(initialState); the calls in flight and the listeners are not
\* touched
Reset ==
    /\ store' = initialState
    /\ ret' = [op |-> "reset"]
    /\ UNCHANGED <<calls, userVars, msgVars, adminVars>>

\* the rest of the action after the await: the cache patch or the catch
\* block, then the finally block
Continue(i) ==
    /\ calls[i].pc \in {"resolved", "rejected"}
    /\ store' = Merge(IF calls[i].pc = "resolved"
                      THEN ThenPatch(store, calls[i])
                      ELSE Merge(store, CatchPatch(calls[i].op, calls[i].message)),
                      FinallyPatch(calls[i].op))
    /\ calls' = [calls EXCEPT ![i] = Idle]
    /\ ret' = Settled(calls[i])
    /\ UNCHANGED <<userVars, msgVars, adminVars>>

\* the value undefined; no array equals it (an array is indexed from 1)
Undefined == (0 :> "undefined")

\* object.name, undefined when the object has no such property
Property(object, name) ==
    IF name \in DOMAIN object THEN object[name] ELSE Undefined

\* the set() of the callback the store hands to userService.subscribeToAdminData
AdminDataPatch(data) ==
    [flaggedContent |-> Property(data, "flaggedContent"),
     systemMessages |-> Property(data, "systemMessages")]

Delivered(snapshot) == [delivered |-> TRUE, snapshot |-> snapshot]

\* subscribeToAdminData: both listeners are attached and the combined
\* unsubscribe function is returned
SubscribeToAdminData ==
    /\ Len(listeners) < MaxSubs
    /\ listeners' = Append(listeners, NewSubscription)
    /\ ret' = [op |-> "subscribeToAdminData", subscription |-> Len(listeners) + 1]
    /\ UNCHANGED <<userVars, msgVars, dbFlaggedContent, dbSystemMessages, views,
                 storeVars>>

\* an attached flagged-content listener fires: first with the current
\* snapshot, then whenever the result of its query has changed
FlaggedContentPush(s) ==
    /\ s \in 1..Len(listeners)
    /\ listeners[s].flagged
    /\ listeners[s].flaggedSeen # Delivered(FlaggedContentSnapshot)
    /\ listeners' = [listeners EXCEPT ![s] =
                        Merge(@, [flaggedSeen |-> Delivered(FlaggedContentSnapshot)])]
    /\ store' = Merge(store, AdminDataPatch(FlaggedContentPayload(FlaggedContentSnapshot)))
    /\ ret' = [op |-> "callback", subscription |-> s,
               data |-> FlaggedContentPayload(FlaggedContentSnapshot)]
    /\ UNCHANGED <<userVars, msgVars, dbFlaggedContent, dbSystemMessages, views,
                 calls>>

\* an attached system-messages listener fires
SystemMessagesPush(s) ==
    /\ s \in 1..Len(listeners)
    /\ listeners[s].messages
    /\ listeners[s].messagesSeen # Delivered(SystemMessagesSnapshot)
    /\ listeners' = [listeners EXCEPT ![s] =
                        Merge(@, [messagesSeen |-> Delivered(SystemMessagesSnapshot)])]
    /\ store' = Merge(store, AdminDataPatch(SystemMessagesPayload(SystemMessagesSnapshot)))
    /\ ret' = [op |-> "callback", subscription |-> s,
               data |-> SystemMessagesPayload(SystemMessagesSnapshot)]
    /\ UNCHANGED <<userVars, msgVars, dbFlaggedContent, dbSystemMessages, views,
                 calls>>

\* a snapshot computed for a listener waits here until its callback runs
MaxInTransit == 1

\* the listener of one subscribeToUserNotifications call: whether it is
\* attached, the snapshot computed for it last, and the snapshots on their
\* way to the callback
NotificationListener(userId) ==
    [kind |-> "notifications", userId |-> userId, attached |-> TRUE,
     computed |-> NotDelivered, inTransit |-> <<>>]

\* subscribeToNotifications: without a current user nothing is attached and
\* a function that does nothing is returned
SubscribeToNotifications ==
    /\ IF CurrentUserId(store) = ""
       THEN /\ ret' = [op |-> "subscribeToNotifications", subscription |-> 0]
            /\ UNCHANGED listeners
       ELSE /\ Len(listeners) < MaxSubs
            /\ listeners' = Append(listeners,
                                   NotificationListener(CurrentUserId(store)))
            /\ ret' = [op |-> "subscribeToNotifications",
                       subscription |-> Len(listeners) + 1]
    /\ UNCHANGED <<userVars, msgVars, dbFlaggedContent, dbSystemMessages, views,
                 storeVars>>

\* the result of the listener's query has changed (or the listener has just
\* been attached): a snapshot is computed and sent towards the client
NotificationsSnapshotComputed(s) ==
    /\ s \in 1..Len(listeners)
    /\ listeners[s].kind = "notifications"
    /\ listeners[s].attached
    /\ Len(listeners[s].inTransit) < MaxInTransit
    /\ LET snapshot == NotificationsSnapshot(listeners[s].userId) IN
          /\ listeners[s].computed # Delivered(snapshot)
          /\ listeners' = [listeners EXCEPT ![s] =
                Merge(@, [computed |-> Delivered(snapshot),
                          inTransit |-> Append(@.inTransit, snapshot)])]
    /\ ret' = [op |-> "snapshot", subscription |-> s]
    /\ UNCHANGED <<userVars, msgVars, dbFlaggedContent, dbSystemMessages, views,
                 storeVars>>

NotificationsPatchKeepingRead(state, notifications) ==
    [notifications |->
        [n \in 1..Len(notifications) |->
            IF \E m \in 1..Len(state.notifications) :
                  /\ state.notifications[m].id = notifications[n].id
                  /\ state.notifications[m].read
            THEN Merge(notifications[n], [read |-> TRUE])
            ELSE notifications[n]]]

\* the set() of the callback the store hands to subscribeToUserNotifications
NotificationsPatch(state, notifications) == [notifications |-> notifications]

\* a snapshot arrives: the listener runs the callback with it
NotificationsPush(s) ==
    /\ s \in 1..Len(listeners)
    /\ listeners[s].kind = "notifications"
    /\ listeners[s].attached
    /\ listeners[s].inTransit # <<>>
    /\ listeners' = [listeners EXCEPT ![s] =
                        Merge(@, [inTransit |-> Tail(@.inTransit)])]
    /\ store' = Merge(store, NotificationsPatch(store, Head(listeners[s].inTransit)))
    /\ ret' = [op |-> "callback", subscription |-> s,
               data |-> Head(listeners[s].inTransit)]
    /\ UNCHANGED <<userVars, msgVars, dbFlaggedContent, dbSystemMessages, views,
                 calls>>

----------------------------------------------------------------------------
(* enhancedMessageService called by several clients at once: each call is  *)
(* a sequence of awaits, and other calls run between them                  *)

\* sendMessage up to its first await: addDoc stores the message
SendMessageAddsDoc(i, conversationId, senderId) ==
    /\ calls[i] = Idle
    /\ Len(dbMessages) < MaxMsgs
    /\ dbMessages' = Append(dbMessages, MessageData(conversationId, senderId))
    /\ calls' = [calls EXCEPT ![i] =
                    [pc |-> "pending", op |-> "service.sendMessage", step |-> "getDoc",
                     conversationId |-> conversationId, senderId |-> senderId,
                     messageId |-> Len(dbMessages) + 1]]
    /\ ret' = [op |-> "addDoc", id |-> Len(dbMessages) + 1]
    /\ UNCHANGED <<dbConversations, dbNotifications, userVars, adminVars, store>>

\* getDoc(conversationRef): the conversation as it is now; the call returns
\* the message id when there is no such conversation
SendMessageReadsConversation(i) ==
    /\ Pending(i, "service.sendMessage")
    /\ calls[i].step = "getDoc"
    /\ IF Exists(dbConversations, calls[i].conversationId)
       THEN /\ calls' = [calls EXCEPT ![i] =
                   Merge(@, [step |-> "updateDoc",
                             conversationData |-> dbConversations[calls[i].conversationId]])]
            /\ ret' = [op |-> "getDoc", id |-> calls[i].conversationId]
       ELSE /\ calls' = [calls EXCEPT ![i] = Idle]
            /\ ret' = [op |-> "sendMessage", conversationId |-> calls[i].conversationId,
                       senderId |-> calls[i].senderId, id |-> calls[i].messageId]
    /\ UNCHANGED <<msgVars, userVars, adminVars, store>>

\* updateDoc with the counters computed from the conversation that was read,
\* then the notifications, and the message id is returned
SendMessageWritesConversation(i) ==
    /\ Pending(i, "service.sendMessage")
    /\ calls[i].step = "updateDoc"
    /\ LET conv == calls[i].conversationData
           senderId == calls[i].senderId
           conversationId == calls[i].conversationId
       IN /\ dbConversations' =
                [dbConversations EXCEPT ![conversationId] =
                    Merge(@, [lastMessage |-> senderId,
                              unreadCount |-> IncrementUnread(CurrentUnreadCount(conv),
                                                              conv.participants, senderId)])]
          /\ dbNotifications' = dbNotifications \o
                NewMessageNotifications({p \in conv.participants : p # senderId},
                                        conversationId, calls[i].messageId)
          /\ ret' = [op |-> "sendMessage", conversationId |-> conversationId,
                     senderId |-> senderId, id |-> calls[i].messageId]
    /\ calls' = [calls EXCEPT ![i] = Idle]
    /\ UNCHANGED <<dbMessages, userVars, adminVars, store>>

\* markConversationAsRead up to the await of its batch: the unread messages
\* of the others are marked read
MarkConversationAsReadMarksMessages(i, conversationId, userId) ==
    /\ calls[i] = Idle
    /\ dbMessages' = [m \in 1..Len(dbMessages) |->
                        IF UnreadFromOthers(dbMessages[m], conversationId, userId)
                        THEN [dbMessages[m] EXCEPT !.read = TRUE]
                        ELSE dbMessages[m]]
    /\ calls' = [calls EXCEPT ![i] =
                    [pc |-> "pending", op |-> "service.markConversationAsRead",
                     step |-> "getDoc", conversationId |-> conversationId,
                     userId |-> userId]]
    /\ ret' = [op |-> "getDocs", conversationId |-> conversationId]
    /\ UNCHANGED <<dbConversations, dbNotifications, userVars, adminVars, store>>

MarkConversationAsReadReadsConversation(i) ==
    /\ Pending(i, "service.markConversationAsRead")
    /\ calls[i].step = "getDoc"
    /\ IF Exists(dbConversations, calls[i].conversationId)
       THEN /\ calls' = [calls EXCEPT ![i] =
                   Merge(@, [step |-> "updateDoc",
                             conversationData |-> dbConversations[calls[i].conversationId]])]
            /\ ret' = [op |-> "getDoc", id |-> calls[i].conversationId]
       ELSE /\ calls' = [calls EXCEPT ![i] = Idle]
            /\ ret' = [op |-> "markConversationAsRead",
                       conversationId |-> calls[i].conversationId,
                       userId |-> calls[i].userId]
    /\ UNCHANGED <<msgVars, userVars, adminVars, store>>

MarkConversationAsReadWritesConversation(i) ==
    /\ Pending(i, "service.markConversationAsRead")
    /\ calls[i].step = "updateDoc"
    /\ dbConversations' =
          [dbConversations EXCEPT ![calls[i].conversationId] =
              Merge(@, [unreadCount |->
                          ResetUnread(CurrentUnreadCount(calls[i].conversationData),
                                      calls[i].userId)])]
    /\ calls' = [calls EXCEPT ![i] = Idle]
    /\ ret' = [op |-> "markConversationAsRead",
               conversationId |-> calls[i].conversationId, userId |-> calls[i].userId]
    /\ UNCHANGED <<dbMessages, dbNotifications, userVars, adminVars, store>>

\* addMessageReaction up to its updateDoc: getDoc reads the message; the
\* call ends there when the message does not exist
AddMessageReactionReadsMessage(i, messageId, emoji, userId) ==
    /\ calls[i] = Idle
    /\ IF Exists(dbMessages, messageId)
       THEN /\ calls' = [calls EXCEPT ![i] =
                   [pc |-> "pending", op |-> "service.addMessageReaction",
                    messageId |-> messageId, emoji |-> emoji, userId |-> userId,
                    reactions |-> dbMessages[messageId].reactions]]
            /\ ret' = [op |-> "getDoc", id |-> messageId]
       ELSE /\ UNCHANGED calls
            /\ ret' = [op |-> "addMessageReaction", messageId |-> messageId,
                       emoji |-> emoji, userId |-> userId]
    /\ UNCHANGED <<msgVars, userVars, adminVars, store>>

\* updateDoc(messageRef, { reactions }) with the list that was read, the
\* user's reaction added to it
AddMessageReactionWritesMessage(i) ==
    /\ Pending(i, "service.addMessageReaction")
    /\ Exists(dbMessages, calls[i].messageId)
    /\ dbMessages' = [dbMessages EXCEPT ![calls[i].messageId].reactions =
                          AddReaction(calls[i].reactions, calls[i].emoji,
                                      calls[i].userId)]
    /\ calls' = [calls EXCEPT ![i] = Idle]
    /\ ret' = [op |-> "addMessageReaction", messageId |-> calls[i].messageId,
               emoji |-> calls[i].emoji, userId |-> calls[i].userId]
    /\ UNCHANGED <<dbConversations, dbNotifications, userVars, adminVars, store>>

----------------------------------------------------------------------------
(* The views that subscribe in a useEffect: the admin dashboard            *)
(* (dependency userRole) and the NotificationCenter (dependency            *)
(* session?.uid).  React runs the cleanup an effect returned before it     *)
(* runs the effect again for a changed dependency, and when the view       *)
(* unmounts.                                                               *)

MaxEffects == 3     \* subscriptions the effects establish in one run

OwnedBy(view) == [owner |-> view]

AdminDashboardEffectWithoutCleanup(userRole, ls) ==
    IF userRole = "admin"
    THEN [listeners |-> Append(ls, Merge(NewSubscription, OwnedBy("AdminDashboard"))),
          cleanup |-> 0]
    ELSE [listeners |-> ls, cleanup |-> 0]

\* the effect of the admin dashboard: an admin subscribes to the admin data
\* and the effect returns the unsubscribe handle; for any other role the
\* effect does and returns nothing.  (The three loads the effect starts
\* first are the store actions loadAdminRequests, loadAllUsers and
\* loadFlaggedContent; they touch no listener.)
AdminDashboardEffect(userRole, ls) ==
    IF userRole = "admin"
    THEN [listeners |-> Append(ls, Merge(NewSubscription, OwnedBy("AdminDashboard"))),
          cleanup |-> Len(ls) + 1]
    ELSE [listeners |-> ls, cleanup |-> 0]

\* the effect of the NotificationCenter: without a session uid it returns at
\* once; otherwise it subscribes and returns () => unsubscribe()
NotificationCenterEffect(uid, ls) ==
    IF uid = Null
    THEN [listeners |-> ls, cleanup |-> 0]
    ELSE [listeners |-> Append(ls, Merge(NotificationListener(uid),
                                         OwnedBy("NotificationCenter"))),
          cleanup |-> Len(ls) + 1]

Effect(view, dep, ls) ==
    IF view = "AdminDashboard" THEN AdminDashboardEffect(dep, ls)
    ELSE NotificationCenterEffect(dep, ls)

\* the cleanup function of the last effect run is called (0: it returned none)
RunCleanup(view, cleanup, ls) ==
    IF cleanup = 0 THEN ls
    ELSE [ls EXCEPT ![cleanup] =
             IF view = "AdminDashboard" THEN CombinedUnsubscribe(@)
             ELSE Merge(@, [attached |-> FALSE])]

Dependencies(view) ==
    IF view = "AdminDashboard" THEN {"admin", "user"} ELSE {"u1", "u2", Null}

Mount(view, dep) ==
    /\ ~views[view].mounted
    /\ Len(listeners) < MaxEffects
    /\ LET e == Effect(view, dep, listeners) IN
          /\ listeners' = e.listeners
          /\ views' = [views EXCEPT ![view] =
                          [mounted |-> TRUE, dep |-> dep, cleanup |-> e.cleanup]]
    /\ ret' = [op |-> "mount", view |-> view]
    /\ UNCHANGED <<userVars, msgVars, dbFlaggedContent, dbSystemMessages, storeVars>>

DependencyChanges(view, dep) ==
    /\ views[view].mounted
    /\ views[view].dep # dep
    /\ Len(listeners) < MaxEffects
    /\ LET e == Effect(view, dep,
                       RunCleanup(view, views[view].cleanup, listeners)) IN
          /\ listeners' = e.listeners
          /\ views' = [views EXCEPT ![view] =
                          [mounted |-> TRUE, dep |-> dep, cleanup |-> e.cleanup]]
    /\ ret' = [op |-> "update", view |-> view]
    /\ UNCHANGED <<userVars, msgVars, dbFlaggedContent, dbSystemMessages, storeVars>>

Unmount(view) ==
    /\ views[view].mounted
    /\ listeners' = RunCleanup(view, views[view].cleanup, listeners)
    /\ views' = [views EXCEPT ![view] = Unmounted]
    /\ ret' = [op |-> "unmount", view |-> view]
    /\ UNCHANGED <<userVars, msgVars, dbFlaggedContent, dbSystemMessages, storeVars>>

----------------------------------------------------------------------------
(* The handlers of the admin dashboard.  A text is a sequence of           *)
(* characters.                                                             *)

\* String.prototype.trim: leading and trailing white space removed
RECURSIVE Trim(_)
Trim(text) ==
    IF text = <<>> THEN text
    ELSE IF Head(text) = " " THEN Trim(Tail(text))
    ELSE IF text[Len(text)] = " " THEN Trim(SubSeq(text, 1, Len(text) - 1))
    ELSE text

BlankInputUntrimmed(text) == text = <<>>

\* !banReason.trim() and !broadcastMessage.trim()
BlankInput(text) == Trim(text) = <<>>

\* handleBanUser up to its first await: a blank reason is answered with an
\* alert; otherwise the store's banUser is called
HandleBanUser(i, userId, banReason) ==
    IF BlankInput(banReason)
    THEN /\ ret' = [op |-> "alert", handler |-> "handleBanUser",
                    banReason |-> banReason,
                    text |-> "Please provide a reason for banning the user."]
         /\ UNCHANGED <<userVars, msgVars, adminVars, storeVars>>
    ELSE Begin(i, [op |-> "banUser", userId |-> userId, reason |-> banReason,
                   handler |-> "handleBanUser"])

\* banUser has settled (it records a failure and never rethrows):
\* handleBanUser goes on to await loadAllUsers()
HandleBanUserReloads(i) ==
    /\ calls[i].pc \in {"resolved", "rejected"}
    /\ calls[i].op = "banUser"
    /\ Property(calls[i], "handler") = "handleBanUser"
    /\ store' = Merge(Merge(IF calls[i].pc = "resolved"
                            THEN ThenPatch(store, calls[i])
                            ELSE Merge(store, CatchPatch(calls[i].op, calls[i].message)),
                            FinallyPatch(calls[i].op)),
                      TryPatch("loadAllUsers"))
    /\ calls' = [calls EXCEPT ![i] = [op |-> "loadAllUsers", pc |-> "pending",
                                      handler |-> "handleBanUser",
                                      userId |-> calls[i].userId]]
    /\ ret' = Settled(calls[i])
    /\ UNCHANGED <<userVars, msgVars, adminVars>>

\* handleUnbanUser up to its first await
HandleUnbanUser(i, userId) ==
    Begin(i, [op |-> "unbanUser", userId |-> userId, handler |-> "handleUnbanUser"])

\* unbanUser has settled (like banUser it never rethrows): handleUnbanUser
\* goes on to await loadAllUsers()
HandleUnbanUserReloads(i) ==
    /\ calls[i].pc \in {"resolved", "rejected"}
    /\ calls[i].op = "unbanUser"
    /\ Property(calls[i], "handler") = "handleUnbanUser"
    /\ store' = Merge(Merge(IF calls[i].pc = "resolved"
                            THEN ThenPatch(store, calls[i])
                            ELSE Merge(store, CatchPatch(calls[i].op, calls[i].message)),
                            FinallyPatch(calls[i].op)),
                      TryPatch("loadAllUsers"))
    /\ calls' = [calls EXCEPT ![i] = [op |-> "loadAllUsers", pc |-> "pending",
                                      handler |-> "handleUnbanUser",
                                      userId |-> calls[i].userId]]
    /\ ret' = Settled(calls[i])
    /\ UNCHANGED <<userVars, msgVars, adminVars>>

\* the last store action a handler awaits has settled: the handler's try
\* block runs to its end when the action fulfilled, its catch block when
\* the action rejected; either ends with a message to the user
HandlerReports(i, handler, report) ==
    /\ calls[i].pc \in {"resolved", "rejected"}
    /\ Property(calls[i], "handler") = handler
    /\ store' = Merge(IF calls[i].pc = "resolved"
                      THEN ThenPatch(store, calls[i])
                      ELSE Merge(store, CatchPatch(calls[i].op, calls[i].message)),
                      FinallyPatch(calls[i].op))
    /\ calls' = [calls EXCEPT ![i] = Idle]
    /\ ret' = Merge([handler |-> handler],
                    IF Settled(calls[i]).outcome = "fulfilled"
                    THEN report.try ELSE report.catch)
    /\ UNCHANGED <<userVars, msgVars, adminVars>>

\* handleBanUser after await loadAllUsers()
HandleBanUserAlerts(i) ==
    /\ calls[i] # Idle
    /\ calls[i].op = "loadAllUsers"
    /\ HandlerReports(i, "handleBanUser",
          [try |-> [op |-> "alert", text |-> "User has been banned successfully."],
           catch |-> [op |-> "alert", text |-> "Failed to ban user. Please try again."]])

\* handleUnbanUser after await loadAllUsers()
HandleUnbanUserAlerts(i) ==
    /\ calls[i] # Idle
    /\ calls[i].op = "loadAllUsers"
    /\ HandlerReports(i, "handleUnbanUser",
          [try |-> [op |-> "alert", text |-> "User has been unbanned successfully."],
           catch |-> [op |-> "alert", text |-> "Failed to unban user. Please try again."]])

\* handleSendMessage of the messages page up to its await: nothing is sent
\* for a blank message; the page has a session and a selected conversation
HandleSendMessage(i, selectedConversation, newMessage) ==
    IF BlankInput(newMessage)
    THEN /\ ret' = [op |-> "return", handler |-> "handleSendMessage",
                    newMessage |-> newMessage]
         /\ UNCHANGED <<userVars, msgVars, adminVars, storeVars>>
    ELSE Begin(i, [op |-> "sendEnhancedMessage",
                   conversationId |-> selectedConversation,
                   senderId |-> CurrentUserId(store),
                   handler |-> "handleSendMessage"])

\* handleSendMessage after await sendEnhancedMessage(...)
HandleSendMessageToasts(i) ==
    /\ calls[i] # Idle
    /\ calls[i].op = "sendEnhancedMessage"
    /\ HandlerReports(i, "handleSendMessage",
          [try |-> [op |-> "toast", title |-> "Message sent"],
           catch |-> [op |-> "toast", title |-> "Error"]])

\* handleBroadcastMessage up to its await: a blank message returns at once
HandleBroadcastMessage(i, broadcastMessage, messageType) ==
    IF BlankInput(broadcastMessage)
    THEN /\ ret' = [op |-> "return", handler |-> "handleBroadcastMessage",
                    broadcastMessage |-> broadcastMessage]
         /\ UNCHANGED <<userVars, msgVars, adminVars, storeVars>>
    ELSE Begin(i, [op |-> "sendBroadcastMessage", text |-> broadcastMessage,
                   type |-> messageType, handler |-> "handleBroadcastMessage"])

\* an attached system-messages listener fires; the query has no orderBy, so
\* the documents reach the callback in an order the store chooses
SystemMessagesPushInAnyOrder(s) ==
    /\ s \in 1..Len(listeners)
    /\ listeners[s].kind = "admin"
    /\ listeners[s].messages
    /\ \E docs \in Orderings(ActiveSystemMessages) :
          LET systemMessages == SortSystemMessages(docs) IN
          /\ listeners[s].messagesSeen # Delivered(systemMessages)
          /\ listeners' = [listeners EXCEPT ![s] =
                              Merge(@, [messagesSeen |-> Delivered(systemMessages)])]
          /\ store' = Merge(store, AdminDataPatch(SystemMessagesPayload(systemMessages)))
          /\ ret' = [op |-> "callback", subscription |-> s,
                     data |-> SystemMessagesPayload(systemMessages)]
    /\ UNCHANGED <<userVars, msgVars, dbFlaggedContent, dbSystemMessages, views, calls>>

----------------------------------------------------------------------------
(* Initial states *)

\* every member has signed in once: createUserProfile has run for each
InitUsers ==
    /\ dbUsers = [u \in Members |->
                    IF u = "u1" THEN ProfileData(u, <<"a", "n">>, <<"p", "a">>)
                    ELSE ProfileData(u, <<"b", "o">>, <<"p">>)]
    /\ dbSkills = <<>>
    /\ dbSwapRequests = <<>>
    /\ dbRatings = <<>>

InitMessaging ==
    /\ dbConversations = <<>>
    /\ dbMessages = <<>>
    /\ dbNotifications = <<>>

InitAdmin ==
    /\ dbFlaggedContent = <<>>
    /\ dbSystemMessages = <<>>
    /\ listeners = <<>>
    /\ views = [v \in Views |-> Unmounted]

InitStore ==
    /\ store = initialState
    /\ calls = [i \in 1..MaxInFlight |-> Idle]

Init ==
    /\ InitUsers
    /\ InitMessaging
    /\ InitStore
    /\ InitAdmin
    /\ ret = [op |-> "none"]

----------------------------------------------------------------------------
(* Conversations and unread counters, service calls run one after another *)

NextConv ==
    \/ \E P \in SUBSET Users :
          EnhancedCreateConversation(P) /\ UNCHANGED <<storeVars, adminVars>>
    \/ \E c \in 1..MaxConvs, s \in Users :
          EnhancedSendMessage(c, s) /\ UNCHANGED <<storeVars, adminVars>>
    \/ \E c \in 1..MaxConvs, u \in Users :
          MarkConversationAsRead(c, u) /\ UNCHANGED <<storeVars, adminVars>>

SpecConv == Init /\ [][NextConv]_vars

(* Reactions on a message sent into a conversation that does not exist *)

InitReact ==
    /\ InitUsers
    /\ InitStore
    /\ InitAdmin
    /\ dbConversations = <<>>
    /\ dbNotifications = <<>>
    /\ \E s \in Users : dbMessages = <<MessageData(1, s)>>
    /\ ret = [op |-> "none"]

NextReact ==
    \/ \E m \in 1..MaxMsgs, e \in Emojis, u \in Users :
          AddMessageReaction(m, e, u) /\ UNCHANGED <<storeVars, adminVars>>
    \/ \E m \in 1..MaxMsgs, e \in Emojis, u \in Users :
          RemoveMessageReaction(m, e, u) /\ UNCHANGED <<storeVars, adminVars>>

SpecReact == InitReact /\ [][NextReact]_vars

(* User administration: verification, ban and unban *)

VerifyUpdates == {[isVerified |-> TRUE], [isVerified |-> FALSE]}

NextBan ==
    \/ \E u \in Members, up \in VerifyUpdates :
          UpdateUserProfile(u, up) /\ UNCHANGED <<storeVars, adminVars>>
    \/ \E u \in Members, r \in Reasons : BanUser(u, r) /\ UNCHANGED <<storeVars, adminVars>>
    \/ \E u \in Members : UnbanUser(u) /\ UNCHANGED <<storeVars, adminVars>>

SpecBan == Init /\ [][NextBan]_vars

(* User search over profiles and skills *)

SkillInputs == {[name |-> "JavaScript", category |-> "tech"],
                [name |-> "Painting", category |-> "art"]}
QueryLocations == {None, <<"p", "a">>}

NextSearch ==
    \/ \E u \in Members, up \in VerifyUpdates :
          UpdateUserProfile(u, up) /\ UNCHANGED <<storeVars, adminVars>>
    \/ \E u \in Members : BanUser(u, "spam") /\ UNCHANGED <<storeVars, adminVars>>
    \/ \E u \in Members, sk \in SkillInputs, t \in SkillTypes :
          AddSkillToUser(u, sk, t) /\ UNCHANGED <<storeVars, adminVars>>
    \/ \E c \in Categories \cup {None}, l \in QueryLocations, v \in BOOLEAN :
          SearchUsers(c, l, v) /\ UNCHANGED <<storeVars, adminVars>>

SpecSearch == Init /\ [][NextSearch]_vars

(* User search with a search text *)

SearchTexts == {<<"a">>, <<"a", "n">>, <<"b", "o">>, <<"p">>, <<"z">>}

NextTextSearch ==
    \/ \E u \in Members, up \in VerifyUpdates :
          UpdateUserProfile(u, up) /\ UNCHANGED <<storeVars, adminVars>>
    \/ \E q \in SearchTexts, c \in Categories \cup {None}, l \in QueryLocations,
          v \in BOOLEAN :
          SearchUsersWithQuery(q, c, l, v) /\ UNCHANGED <<storeVars, adminVars>>

SpecTextSearch == Init /\ [][NextTextSearch]_vars

(* Swap requests over skills that come and go *)

EmbeddedSkill == [kind |-> "object", id |-> 0, name |-> "Python", category |-> "tech"]

\* a skill field of a new request: an embedded object or the id of a stored skill
SkillFieldInputs == {EmbeddedSkill} \cup
                    {BareSkillId(k) : k \in {j \in 1..Len(dbSkills) : dbSkills[j].exists}}

RequestInputs ==
    {[requesterId |-> r, requesterUid |-> r, targetUid |-> t, status |-> "pending",
      offeredSkill |-> o, requestedSkill |-> q] :
        r \in Members, t \in Members, o \in SkillFieldInputs, q \in SkillFieldInputs}

NextSwap ==
    \/ \E u \in Members, t \in SkillTypes :
          /\ AddSkillToUser(u, [name |-> "JavaScript", category |-> "tech"], t)
          /\ UNCHANGED <<storeVars, adminVars>>
    \/ \E k \in 1..Len(dbSkills) :
          /\ dbSkills[k].exists
          /\ RemoveSkillFromUser(dbSkills[k].userId, k, dbSkills[k].type)
          /\ UNCHANGED <<storeVars, adminVars>>
    \/ \E rd \in RequestInputs : CreateSwapRequest(rd) /\ UNCHANGED <<storeVars, adminVars>>
    \/ \E u \in Members, t \in {"incoming", "outgoing", None} :
          GetUserSwapRequests(u, t) /\ UNCHANGED <<storeVars, adminVars>>
    \/ \E st \in {None, "pending"} :
          GetAllSwapRequests(st, None) /\ UNCHANGED <<storeVars, adminVars>>

SpecSwap == Init /\ [][NextSwap]_vars

(* Ratings *)

RatingInputs ==
    {[fromUid |-> f, toUid |-> t, swapRequestId |-> 1, rating |-> v] :
        f \in Members, t \in Members, v \in RatingValues}

NextRating ==
    \/ \E rd \in RatingInputs : AddRating(rd) /\ UNCHANGED <<storeVars, adminVars>>
    \/ \E u \in Members : GetUserRatings(u) /\ UNCHANGED <<storeVars, adminVars>>

SpecRating == Init /\ [][NextRating]_vars

----------------------------------------------------------------------------
(* Two addSkill actions of the store issued in the same tick *)

FailureMessages == {"permission-denied", ""}

AddSkillCalls == {[skill |-> sk, type |-> t] : sk \in SkillInputs, t \in SkillTypes}

NextAddSkill ==
    \/ \E u \in Members, first \in AddSkillCalls, second \in AddSkillCalls :
          /\ first.type # second.type
          /\ AddSkillTwice(u, first, second)
    \/ \E i \in 1..MaxInFlight : AddSkillRemote(i)
    \/ \E i \in 1..MaxInFlight, m \in FailureMessages : RemoteFails(i, m)
    \/ \E i \in 1..MaxInFlight : Continue(i)

SpecAddSkill == Init /\ [][NextAddSkill]_vars

----------------------------------------------------------------------------
(* Store actions run one at a time: an action is started when none is in   *)
(* flight.                                                                 *)

NoneInFlight == \A i \in 1..MaxInFlight : calls[i] = Idle

InitStoreSeq ==
    /\ InitUsers
    /\ dbConversations = <<ConversationData({"u1", "u2"})>>
    /\ dbMessages = <<>>
    /\ dbNotifications = <<>>
    /\ InitStore
    /\ InitAdmin
    /\ ret = [op |-> "none"]

StoreUser == "u1"
StoreSkill == [name |-> "JavaScript", category |-> "tech"]
StoreRequest ==
    [requesterId |-> "u1", requesterUid |-> "u1", targetUid |-> "u2",
     status |-> "pending", offeredSkill |-> EmbeddedSkill,
     requestedSkill |-> EmbeddedSkill]

NextStoreSeq ==
    \/ \E i \in 1..MaxInFlight :
          NoneInFlight /\ LoadUserSkills(i, StoreUser, None)
    \/ \E i \in 1..MaxInFlight :
          NoneInFlight /\ AddSkill(i, StoreUser, StoreSkill, "offered")
    \/ \E i \in 1..MaxInFlight, k \in 1..Len(dbSkills) :
          /\ NoneInFlight
          /\ dbSkills[k].exists
          /\ RemoveSkill(i, dbSkills[k].userId, k, dbSkills[k].type)
    \/ \E i \in 1..MaxInFlight :
          NoneInFlight /\ StoreCreateSwapRequest(i, StoreRequest)
    \/ \E i \in 1..MaxInFlight, r \in 1..MaxRequests :
          NoneInFlight /\ StoreUpdateSwapRequestStatus(i, r, "accepted", "")
    \/ \E i \in 1..MaxInFlight : NoneInFlight /\ SendEnhancedMessage(i, 1)
    \/ \E i \in 1..MaxInFlight : GetUserSkillsRemote(i)
    \/ \E i \in 1..MaxInFlight : AddSkillRemote(i)
    \/ \E i \in 1..MaxInFlight : RemoveSkillRemote(i)
    \/ \E i \in 1..MaxInFlight : CreateSwapRequestRemote(i)
    \/ \E i \in 1..MaxInFlight : UpdateSwapRequestStatusRemote(i)
    \/ \E i \in 1..MaxInFlight : SendMessageRemote(i)
    \/ \E i \in 1..MaxInFlight, m \in FailureMessages : RemoteFails(i, m)
    \/ \E i \in 1..MaxInFlight : UpdateOfMissingRequestFails(i)
    \/ \E i \in 1..MaxInFlight : Continue(i)

SpecStoreSeq == InitStoreSeq /\ [][NextStoreSeq]_vars

----------------------------------------------------------------------------
(* The message actions of the store, one at a time, from no conversation *)

NextStoreMsg ==
    \/ \E i \in 1..MaxInFlight :
          NoneInFlight /\ LoadCurrentUserProfile(i, StoreUser)
    \/ \E i \in 1..MaxInFlight :
          NoneInFlight /\ StoreCreateConversation(i, {"u1", "u2"})
    \/ \E i \in 1..MaxInFlight :
          NoneInFlight /\ StoreSendMessage(i, 1, StoreUser)
    \/ \E i \in 1..MaxInFlight : NoneInFlight /\ SendEnhancedMessage(i, 1)
    \/ \E i \in 1..MaxInFlight, m \in 1..MaxMsgs :
          NoneInFlight /\ StoreAddMessageReaction(i, m, "e1")
    \/ \E i \in 1..MaxInFlight : GetUserProfileRemote(i)
    \/ \E i \in 1..MaxInFlight : BaseCreateConversationRemote(i)
    \/ \E i \in 1..MaxInFlight : BaseSendMessageRemote(i)
    \/ \E i \in 1..MaxInFlight : SendMessageRemote(i)
    \/ \E i \in 1..MaxInFlight : AddMessageReactionRemote(i)
    \/ \E i \in 1..MaxInFlight, m \in FailureMessages : RemoteFails(i, m)
    \/ \E i \in 1..MaxInFlight : SendToMissingConversationFails(i)
    \/ \E i \in 1..MaxInFlight : Continue(i)

SpecStoreMsg == Init /\ [][NextStoreMsg]_vars

----------------------------------------------------------------------------
(* Load actions of the store, one at a time, over collections that do not *)
(* change                                                                  *)

\* the remote call of the action in slot i resolves or rejects
LoadSettles(i) ==
    \/ GetUserProfileRemote(i)
    \/ SearchUsersRemote(i)
    \/ GetUserSkillsRemote(i)
    \/ GetUserSwapRequestsRemote(i)
    \/ GetUserConversationsRemote(i)
    \/ GetUserNotificationsRemote(i)
    \/ GetFlaggedContentRemote(i)
    \/ \E m \in FailureMessages : RemoteFails(i, m)

NextLoads ==
    \/ \E i \in 1..MaxInFlight :
          NoneInFlight /\ LoadCurrentUserProfile(i, StoreUser)
    \/ \E i \in 1..MaxInFlight : NoneInFlight /\ LoadUsers(i, None, None)
    \/ \E i \in 1..MaxInFlight : NoneInFlight /\ LoadUserSkills(i, StoreUser, None)
    \/ \E i \in 1..MaxInFlight : NoneInFlight /\ LoadSwapRequests(i, StoreUser, None)
    \/ \E i \in 1..MaxInFlight : NoneInFlight /\ LoadConversations(i, StoreUser)
    \/ \E i \in 1..MaxInFlight : NoneInFlight /\ LoadNotifications(i)
    \/ \E i \in 1..MaxInFlight : NoneInFlight /\ LoadFlaggedContent(i)
    \/ \E i \in 1..MaxInFlight : GetUserProfileRemote(i)
    \/ \E i \in 1..MaxInFlight : SearchUsersRemote(i)
    \/ \E i \in 1..MaxInFlight : GetUserSkillsRemote(i)
    \/ \E i \in 1..MaxInFlight : GetUserSwapRequestsRemote(i)
    \/ \E i \in 1..MaxInFlight : GetUserConversationsRemote(i)
    \/ \E i \in 1..MaxInFlight : GetUserNotificationsRemote(i)
    \/ \E i \in 1..MaxInFlight : GetFlaggedContentRemote(i)
    \/ \E i \in 1..MaxInFlight, m \in FailureMessages : RemoteFails(i, m)
    \/ \E i \in 1..MaxInFlight : Continue(i)

\* every remote call eventually resolves or rejects, and the event loop
\* eventually runs the continuation of a settled call
FairLoads ==
    \A i \in 1..MaxInFlight : WF_vars(LoadSettles(i)) /\ WF_vars(Continue(i))

SpecLoads == Init /\ [][NextLoads]_vars /\ FairLoads

----------------------------------------------------------------------------
(* Sending into a conversation while its messages are loaded: store actions *)
(* overlap                                                                   *)

\* the conversation exists and the current user's profile is in the cache
InitChat ==
    /\ InitUsers
    /\ dbConversations = <<BaseConversationData({"u1", "u2"})>>
    /\ dbMessages = <<>>
    /\ dbNotifications = <<>>
    /\ store = [initialState EXCEPT !.currentUserProfile = GetUserProfileResult(StoreUser)]
    /\ calls = [i \in 1..MaxInFlight |-> Idle]
    /\ InitAdmin
    /\ ret = [op |-> "none"]

NextChat ==
    \/ \E i \in 1..MaxInFlight : StoreSendMessage(i, 1, StoreUser)
    \/ \E i \in 1..MaxInFlight : SendEnhancedMessage(i, 1)
    \/ \E i \in 1..MaxInFlight : LoadMessages(i, 1)
    \/ \E i \in 1..MaxInFlight : BaseSendMessageRemote(i)
    \/ \E i \in 1..MaxInFlight : SendMessageRemote(i)
    \/ \E i \in 1..MaxInFlight : GetConversationMessagesRemote(i)
    \/ \E i \in 1..MaxInFlight, m \in FailureMessages : RemoteFails(i, m)
    \/ \E i \in 1..MaxInFlight : Continue(i)

SpecChat == InitChat /\ [][NextChat]_vars

----------------------------------------------------------------------------
(* Ratings added through the store while another addRating is in flight;   *)
(* no remote step fails                                                    *)

NextRatingPair ==
    \/ \E i \in 1..MaxInFlight, rd \in RatingInputs : StoreAddRating(i, rd)
    \/ \E i \in 1..MaxInFlight : AddRatingInsert(i)
    \/ \E i \in 1..MaxInFlight : AddRatingRead(i)
    \/ \E i \in 1..MaxInFlight : AddRatingWrite(i)
    \/ \E i \in 1..MaxInFlight : Continue(i)

SpecRatingPair == Init /\ [][NextRatingPair]_vars

----------------------------------------------------------------------------
(* Conversations of both messaging services, service calls run one after   *)
(* another                                                                 *)

NextBothConv ==
    \/ \E P \in SUBSET Users :
          BaseCreateConversation(P) /\ UNCHANGED <<storeVars, adminVars>>
    \/ \E P \in SUBSET Users :
          EnhancedCreateConversation(P) /\ UNCHANGED <<storeVars, adminVars>>
    \/ \E c \in 1..MaxConvs, s \in Users :
          BaseSendMessage(c, s) /\ UNCHANGED <<storeVars, adminVars>>
    \/ \E c \in 1..MaxConvs, s \in Users :
          EnhancedSendMessage(c, s) /\ UNCHANGED <<storeVars, adminVars>>
    \/ \E c \in 1..MaxConvs, u \in Users :
          MarkConversationAsRead(c, u) /\ UNCHANGED <<storeVars, adminVars>>

SpecBothConv == Init /\ [][NextBothConv]_vars

----------------------------------------------------------------------------
(* The life of a swap request: created through the store, its status set   *)
(* through the store, one action at a time                                 *)

SwapStatuses == {"pending", "approved", "rejected", "accepted", "declined",
                 "completed", "cancelled"}
TerminalStatuses == {"completed", "cancelled"}

NextStatus ==
    \/ \E i \in 1..MaxInFlight :
          NoneInFlight /\ StoreCreateSwapRequest(i, StoreRequest)
    \/ \E i \in 1..MaxInFlight, r \in 1..MaxRequests, st \in SwapStatuses :
          NoneInFlight /\ StoreUpdateSwapRequestStatus(i, r, st, "")
    \/ \E i \in 1..MaxInFlight : CreateSwapRequestRemote(i)
    \/ \E i \in 1..MaxInFlight : UpdateSwapRequestStatusRemote(i)
    \/ \E i \in 1..MaxInFlight, m \in FailureMessages : RemoteFails(i, m)
    \/ \E i \in 1..MaxInFlight : UpdateOfMissingRequestFails(i)
    \/ \E i \in 1..MaxInFlight : Continue(i)

SpecStatus == Init /\ [][NextStatus]_vars

----------------------------------------------------------------------------
(* Skills added and removed, each call running to its end or failing at    *)
(* its second remote step                                                  *)

NextSkills ==
    \/ \E u \in Members, sk \in SkillInputs, t \in SkillTypes :
          AddSkillToUser(u, sk, t) /\ UNCHANGED <<storeVars, adminVars>>
    \/ \E k \in 1..Len(dbSkills) :
          /\ dbSkills[k].exists
          /\ RemoveSkillFromUser(dbSkills[k].userId, k, dbSkills[k].type)
          /\ UNCHANGED <<storeVars, adminVars>>
    \/ \E u \in Members, sk \in SkillInputs, t \in SkillTypes :
          AddSkillToUserFailsAtUpdate(u, sk, t) /\ UNCHANGED <<storeVars, adminVars>>
    \/ \E k \in 1..Len(dbSkills) :
          /\ dbSkills[k].exists
          /\ RemoveSkillFromUserFailsAtUpdate(dbSkills[k].userId, k, dbSkills[k].type)
          /\ UNCHANGED <<storeVars, adminVars>>

SpecSkills == Init /\ [][NextSkills]_vars

----------------------------------------------------------------------------
(* Messages edited and deleted through the store, one action at a time,    *)
(* while another participant sends messages the cache never loads          *)

NextEdit ==
    \/ \E i \in 1..MaxInFlight : NoneInFlight /\ SendEnhancedMessage(i, 1)
    \/ EnhancedSendMessage(1, "u2") /\ UNCHANGED <<storeVars, adminVars>>
    \/ \E i \in 1..MaxInFlight, m \in 1..MaxMsgs :
          NoneInFlight /\ StoreEditMessage(i, m, "new text")
    \/ \E i \in 1..MaxInFlight, m \in 1..MaxMsgs :
          NoneInFlight /\ StoreDeleteMessage(i, m)
    \/ \E i \in 1..MaxInFlight : SendMessageRemote(i)
    \/ \E i \in 1..MaxInFlight : EditMessageRemote(i)
    \/ \E i \in 1..MaxInFlight : DeleteMessageRemote(i)
    \/ \E i \in 1..MaxInFlight, m \in FailureMessages : RemoteFails(i, m)
    \/ \E i \in 1..MaxInFlight : EditOfMissingMessageFails(i)
    \/ \E i \in 1..MaxInFlight : Continue(i)

SpecEdit == InitChat /\ [][NextEdit]_vars

----------------------------------------------------------------------------
(* Load actions of the store that overlap *)

NextOverlap ==
    \/ \E i \in 1..MaxInFlight : LoadUsers(i, None, None)
    \/ \E i \in 1..MaxInFlight : LoadSwapRequests(i, StoreUser, None)
    \/ \E i \in 1..MaxInFlight : LoadAdminRequests(i)
    \/ \E i \in 1..MaxInFlight : LoadMessages(i, 1)
    \/ \E i \in 1..MaxInFlight : SearchUsersRemote(i)
    \/ \E i \in 1..MaxInFlight : GetUserSwapRequestsRemote(i)
    \/ \E i \in 1..MaxInFlight : GetAllSwapRequestsRemote(i)
    \/ \E i \in 1..MaxInFlight : GetConversationMessagesRemote(i)
    \/ \E i \in 1..MaxInFlight, m \in FailureMessages : RemoteFails(i, m)
    \/ \E i \in 1..MaxInFlight : Continue(i)

SpecOverlap == Init /\ [][NextOverlap]_vars

----------------------------------------------------------------------------
(* The notification list: the subscription delivers snapshots while the   *)
(* user marks notifications as read and deletes them                       *)

\* two notifications have been created for the current user, whose profile
\* is in the cache or has not been loaded yet
InitNotifications ==
    /\ InitUsers
    /\ dbConversations = <<>>
    /\ dbMessages = <<>>
    /\ dbNotifications = <<NotificationData(StoreUser, "swap_request_received"),
                           NotificationData(StoreUser, "new_message")>>
    /\ store \in {initialState,
                   [initialState EXCEPT
                       !.currentUserProfile = GetUserProfileResult(StoreUser)]}
    /\ calls = [i \in 1..MaxInFlight |-> Idle]
    /\ InitAdmin
    /\ ret = [op |-> "none"]

NextNotifications ==
    \/ SubscribeToNotifications
    \/ \E s \in 1..MaxSubs : NotificationsSnapshotComputed(s)
    \/ \E s \in 1..MaxSubs : NotificationsPush(s)
    \/ \E i \in 1..MaxInFlight, n \in 1..2 :
          NoneInFlight /\ StoreMarkNotificationAsRead(i, n)
    \/ \E i \in 1..MaxInFlight : NoneInFlight /\ StoreMarkAllNotificationsAsRead(i)
    \/ \E i \in 1..MaxInFlight : NoneInFlight /\ StoreDeleteNotification(i, 1)
    \/ \E i \in 1..MaxInFlight : MarkNotificationAsReadRemote(i)
    \/ \E i \in 1..MaxInFlight : MarkAllNotificationsAsReadRemote(i)
    \/ \E i \in 1..MaxInFlight : DeleteNotificationRemote(i)
    \/ \E i \in 1..MaxInFlight : MarkOfMissingNotificationFails(i)
    \/ \E i \in 1..MaxInFlight : Continue(i)

SpecNotifications == InitNotifications /\ [][NextNotifications]_vars

----------------------------------------------------------------------------
(* Views are mounted and unmounted while the role and the session change   *)

NextViews ==
    \/ \E view \in Views : \E dep \in Dependencies(view) : Mount(view, dep)
    \/ \E view \in Views : \E dep \in Dependencies(view) : DependencyChanges(view, dep)
    \/ \E view \in Views : Unmount(view)

SpecViews == Init /\ [][NextViews]_vars

----------------------------------------------------------------------------
(* The admin bans users and broadcasts messages from the dashboard         *)

Texts == {<<>>, <<" ">>, <<" ", " ">>, <<"s">>, <<" ", "s">>}

NextModeration ==
    \/ \E i \in 1..MaxInFlight, text \in Texts :
          NoneInFlight /\ HandleBanUser(i, "u2", text)
    \/ \E i \in 1..MaxInFlight, text \in Texts :
          NoneInFlight /\ HandleBroadcastMessage(i, text, "info")
    \/ \E i \in 1..MaxInFlight : NoneInFlight /\ StoreUnbanUser(i, "u2")
    \/ \E i \in 1..MaxInFlight : BanUserRemote(i)
    \/ \E i \in 1..MaxInFlight : UnbanUserRemote(i)
    \/ \E i \in 1..MaxInFlight : SendBroadcastMessageRemote(i)
    \/ \E i \in 1..MaxInFlight : SearchAllUsersIncludingBannedRemote(i)
    \/ \E i \in 1..MaxInFlight, m \in FailureMessages : RemoteFails(i, m)
    \/ \E i \in 1..MaxInFlight : HandleBanUserReloads(i)
    \/ \E i \in 1..MaxInFlight :
          calls[i] # Idle /\ calls[i].op # "banUser" /\ Continue(i)

SpecModeration == Init /\ [][NextModeration]_vars

----------------------------------------------------------------------------
(* The system-messages feed of the admin who sends the broadcasts          *)

NextFeed ==
    \/ SubscribeToAdminData
    \/ \E s \in 1..MaxSubs : InvokeHandle(s)
    \/ \E s \in 1..MaxSubs : SystemMessagesPushInAnyOrder(s)
    \/ \E type \in {"info", "warning"} :
          AddBroadcastLocally("maintenance", type) /\ UNCHANGED storeVars
    \/ \E id \in 1..MaxBroadcasts : BroadcastAcknowledged(id) /\ UNCHANGED storeVars

SpecFeed == Init /\ [][NextFeed]_vars

----------------------------------------------------------------------------
(* Users are banned and unbanned through the store while its user list is *)
(* loaded                                                                  *)

NextStoreBan ==
    \/ \E i \in 1..MaxInFlight : NoneInFlight /\ LoadAllUsers(i)
    \/ \E i \in 1..MaxInFlight, reason \in Reasons :
          NoneInFlight /\ StoreBanUser(i, "u2", reason)
    \/ \E i \in 1..MaxInFlight : NoneInFlight /\ StoreUnbanUser(i, "u2")
    \/ \E updates \in VerifyUpdates :
          /\ NoneInFlight
          /\ UpdateUserProfile("u2", updates)
          /\ UNCHANGED <<storeVars, adminVars>>
    \/ \E i \in 1..MaxInFlight : SearchAllUsersIncludingBannedRemote(i)
    \/ \E i \in 1..MaxInFlight : BanUserRemote(i)
    \/ \E i \in 1..MaxInFlight : UnbanUserRemote(i)
    \/ \E i \in 1..MaxInFlight, m \in FailureMessages : RemoteFails(i, m)
    \/ \E i \in 1..MaxInFlight : Continue(i)

SpecStoreBan == Init /\ [][NextStoreBan]_vars

----------------------------------------------------------------------------
(* Three participants send into one conversation at the same time while   *)
(* the first of them reads it                                              *)

InitGroupChat ==
    /\ InitUsers
    /\ dbConversations = <<ConversationData(Users)>>
    /\ dbMessages = <<>>
    /\ dbNotifications = <<>>
    /\ InitStore
    /\ InitAdmin
    /\ ret = [op |-> "none"]

NextGroupChat ==
    \/ \E i \in 1..MaxInFlight, sender \in Users : SendMessageAddsDoc(i, 1, sender)
    \/ \E i \in 1..MaxInFlight : SendMessageReadsConversation(i)
    \/ \E i \in 1..MaxInFlight : SendMessageWritesConversation(i)
    \/ \E i \in 1..MaxInFlight : MarkConversationAsReadMarksMessages(i, 1, "u1")
    \/ \E i \in 1..MaxInFlight : MarkConversationAsReadReadsConversation(i)
    \/ \E i \in 1..MaxInFlight : MarkConversationAsReadWritesConversation(i)

SpecGroupChat == InitGroupChat /\ [][NextGroupChat]_vars

----------------------------------------------------------------------------
(* Several users react to one message at the same time                     *)

NextReactTogether ==
    \/ \E i \in 1..MaxInFlight, m \in 1..MaxMsgs, e \in {"e1"}, u \in {"u1", "u2"} :
          \* the calls in flight are calls of different users
          /\ \A j \in 1..MaxInFlight :
                IF calls[j] = Idle THEN TRUE ELSE calls[j].userId # u
          /\ AddMessageReactionReadsMessage(i, m, e, u)
    \/ \E i \in 1..MaxInFlight : AddMessageReactionWritesMessage(i)

SpecReactTogether == InitReact /\ [][NextReactTogether]_vars

----------------------------------------------------------------------------
(* Sending into a conversation and loading its messages, one store action  *)
(* at a time                                                                *)

NextInbox ==
    \/ \E i \in 1..MaxInFlight : NoneInFlight /\ StoreSendMessage(i, 1, StoreUser)
    \/ \E i \in 1..MaxInFlight : NoneInFlight /\ SendEnhancedMessage(i, 1)
    \/ \E i \in 1..MaxInFlight : NoneInFlight /\ LoadMessages(i, 1)
    \/ \E i \in 1..MaxInFlight : BaseSendMessageRemote(i)
    \/ \E i \in 1..MaxInFlight : SendMessageRemote(i)
    \/ \E i \in 1..MaxInFlight : GetConversationMessagesRemote(i)
    \/ \E i \in 1..MaxInFlight, m \in FailureMessages : RemoteFails(i, m)
    \/ \E i \in 1..MaxInFlight : Continue(i)

SpecInbox == InitChat /\ [][NextInbox]_vars

----------------------------------------------------------------------------
(* The skill actions of the store for one user, one at a time               *)

NextSkillCache ==
    \/ \E i \in 1..MaxInFlight, type \in SkillTypes \cup {None} :
          NoneInFlight /\ LoadUserSkills(i, StoreUser, type)
    \/ \E i \in 1..MaxInFlight, type \in SkillTypes :
          NoneInFlight /\ AddSkill(i, StoreUser, StoreSkill, type)
    \/ \E i \in 1..MaxInFlight, k \in 1..Len(dbSkills) :
          /\ NoneInFlight
          /\ dbSkills[k].exists
          /\ RemoveSkill(i, dbSkills[k].userId, k, dbSkills[k].type)
    \/ \E i \in 1..MaxInFlight : GetUserSkillsRemote(i)
    \/ \E i \in 1..MaxInFlight : AddSkillRemote(i)
    \/ \E i \in 1..MaxInFlight : RemoveSkillRemote(i)
    \/ \E i \in 1..MaxInFlight, m \in FailureMessages : RemoteFails(i, m)
    \/ \E i \in 1..MaxInFlight : Continue(i)

SpecSkillCache == InitStoreSeq /\ [][NextSkillCache]_vars

----------------------------------------------------------------------------
(* What the page handlers tell the user, one handler at a time              *)

NextReport ==
    \/ \E i \in 1..MaxInFlight, text \in Texts :
          NoneInFlight /\ HandleBanUser(i, "u2", text)
    \/ \E i \in 1..MaxInFlight : NoneInFlight /\ HandleUnbanUser(i, "u2")
    \/ \E i \in 1..MaxInFlight, text \in Texts :
          NoneInFlight /\ HandleSendMessage(i, 1, text)
    \/ \E i \in 1..MaxInFlight : BanUserRemote(i)
    \/ \E i \in 1..MaxInFlight : UnbanUserRemote(i)
    \/ \E i \in 1..MaxInFlight : SendMessageRemote(i)
    \/ \E i \in 1..MaxInFlight : SearchAllUsersIncludingBannedRemote(i)
    \/ \E i \in 1..MaxInFlight, m \in FailureMessages : RemoteFails(i, m)
    \/ \E i \in 1..MaxInFlight : HandleBanUserReloads(i)
    \/ \E i \in 1..MaxInFlight : HandleUnbanUserReloads(i)
    \/ \E i \in 1..MaxInFlight : HandleBanUserAlerts(i)
    \/ \E i \in 1..MaxInFlight : HandleUnbanUserAlerts(i)
    \/ \E i \in 1..MaxInFlight : HandleSendMessageToasts(i)

SpecReport == InitChat /\ [][NextReport]_vars

----------------------------------------------------------------------------
(* The cache is reset while loadUsers is in flight and a notification       *)
(* listener is attached                                                     *)

NextReset ==
    \/ Reset
    \/ SubscribeToNotifications
    \/ \E s \in 1..MaxSubs : NotificationsSnapshotComputed(s)
    \/ \E s \in 1..MaxSubs : NotificationsPush(s)
    \/ \E i \in 1..MaxInFlight, category \in {"", "tech"} :
          NoneInFlight /\ LoadUsers(i, category, "")
    \/ \E i \in 1..MaxInFlight : SearchUsersRemote(i)
    \/ \E i \in 1..MaxInFlight, m \in FailureMessages : RemoteFails(i, m)
    \/ \E i \in 1..MaxInFlight : Continue(i)

SpecReset == InitNotifications /\ [][NextReset]_vars

----------------------------------------------------------------------------
(* The admin page: subscriptions to the two admin feeds while flags are   *)
(* handled and broadcasts are sent                                         *)

\* two flags have been reported before the admin page opens
InitAdminPage ==
    /\ InitUsers
    /\ InitMessaging
    /\ InitStore
    /\ dbFlaggedContent = <<FlagData("u1"), FlagData("u2")>>
    /\ dbSystemMessages = <<>>
    /\ listeners = <<>>
    /\ views = [v \in Views |-> Unmounted]
    /\ ret = [op |-> "none"]

NextAdminPage ==
    \/ SubscribeToAdminData
    \/ \E s \in 1..MaxSubs : InvokeHandle(s)
    \/ \E s \in 1..MaxSubs : FlaggedContentPush(s)
    \/ \E s \in 1..MaxSubs : SystemMessagesPush(s)
    \/ \E flagId \in 1..2, action \in {"approve", "reject"} :
          HandleFlaggedContent(flagId, action) /\ UNCHANGED storeVars
    \/ SendBroadcastMessage("maintenance", "info") /\ UNCHANGED storeVars

SpecAdminPage == InitAdminPage /\ [][NextAdminPage]_vars

----------------------------------------------------------------------------
(* Properties *)

\* C1: in a conversation created by enhancedMessageService.createConversation
\* with participants P, a completed sendMessage by a sender s in P raises the
\* unread counter of every participant other than s by exactly 1 and leaves
\* s's counter unchanged; a completed markConversationAsRead(c, u) sets u's
\* counter to 0 and leaves every other participant's counter unchanged.
C1_UnreadCounters ==
    [][/\ (/\ ret'.op = "sendMessage"
           /\ Exists(dbConversations, ret'.conversationId)
           /\ ret'.senderId \in dbConversations[ret'.conversationId].participants)
          => \A u \in dbConversations[ret'.conversationId].participants :
                UnreadOf(dbConversations'[ret'.conversationId].unreadCount, u)
                  = UnreadOf(dbConversations[ret'.conversationId].unreadCount, u)
                    + (IF u = ret'.senderId THEN 0 ELSE 1)
       /\ (/\ ret'.op = "markConversationAsRead"
           /\ Exists(dbConversations, ret'.conversationId))
          => /\ UnreadOf(dbConversations'[ret'.conversationId].unreadCount,
                         ret'.userId) = 0
             /\ \A v \in dbConversations[ret'.conversationId].participants \ {ret'.userId} :
                   UnreadOf(dbConversations'[ret'.conversationId].unreadCount, v)
                     = UnreadOf(dbConversations[ret'.conversationId].unreadCount, v)
      ]_vars

\* u2 has just marked a three-party conversation read after two messages of u1
C1_Witness ==
    /\ ret.op = "markConversationAsRead"
    /\ ret.userId = "u2"
    /\ Exists(dbConversations, ret.conversationId)
    /\ dbConversations[ret.conversationId].participants = Users
    /\ dbConversations[ret.conversationId].unreadCount
         = [u \in Users |-> IF u = "u3" THEN 2 ELSE 0]
    /\ \E i \in 1..Len(dbMessages) : dbMessages[i].senderId = "u1"

\* whether userId has reacted to the message with emoji
HasReacted(msg, emoji, userId) ==
    \E i \in 1..Len(msg.reactions) :
        /\ msg.reactions[i].emoji = emoji
        /\ UsersInclude(msg.reactions[i].users, userId)

\* C3: run one after another for a fixed message, emoji and user,
\* addMessageReaction applied a second time leaves the reaction list as the
\* first application left it, and removeMessageReaction for a user who has not
\* reacted with that emoji leaves the reaction list unchanged.
C3_ReactionIdempotent ==
    [][/\ (ret.op = "addMessageReaction" /\ ret' = ret)
          => dbMessages' = dbMessages
       /\ (/\ ret'.op = "removeMessageReaction"
           /\ Exists(dbMessages, ret'.messageId)
           /\ ~HasReacted(dbMessages[ret'.messageId], ret'.emoji, ret'.userId))
          => dbMessages' = dbMessages
      ]_vars

\* u2 has just added e1 to a message that u1 had reacted to with e1 and e2
C3_Witness ==
    /\ ret.op = "addMessageReaction"
    /\ ret.emoji = "e1"
    /\ ret.userId = "u2"
    /\ Exists(dbMessages, ret.messageId)
    /\ dbMessages[ret.messageId].reactions
         = <<[emoji |-> "e1", users |-> <<"u1", "u2">>],
             [emoji |-> "e2", users |-> <<"u1">>]>>

\* the ratings addressed to userId, by the toUid field the rating data carries
RatingsAddressedTo(userId) ==
    SelectSeq(dbRatings, LAMBDA r : FieldEquals(r, "toUid", userId))

\* C2: after every completed ratingService.addRating for a target T (rating data
\* with toUid = T and an integer rating 1..5), T's user document has rating
\* equal to the mean of all ratings addressed to T rounded to one decimal and
\* reviewCount equal to the number of ratings addressed to T.
C2_RatingAggregate ==
    ret.op = "addRating" =>
        LET addressed == RatingsAddressedTo(ret.toUid)
        IN /\ dbUsers[ret.toUid].reviewCount = Len(addressed)
           /\ dbUsers[ret.toUid].rating
                = RoundedAverage(SumRatings(addressed), Len(addressed))

\* C4: banUser sets isBanned = true, the ban reason and timestamp, and
\* isVerified = false whatever isVerified was; unbanUser sets isBanned = false,
\* clears banReason and bannedAt, and leaves isVerified as it was.
C4_BanUnban ==
    [][/\ ret'.op = "banUser"
          => /\ dbUsers'[ret'.userId].isBanned = TRUE
             /\ dbUsers'[ret'.userId].banReason = ret'.reason
             /\ dbUsers'[ret'.userId].bannedAt = "serverTimestamp"
             /\ dbUsers'[ret'.userId].isVerified = FALSE
       /\ ret'.op = "unbanUser"
          => /\ dbUsers'[ret'.userId].isBanned = FALSE
             /\ dbUsers'[ret'.userId].banReason = Null
             /\ dbUsers'[ret'.userId].bannedAt = Null
             /\ dbUsers'[ret'.userId].isVerified = dbUsers[ret'.userId].isVerified
      ]_vars

\* u1 has just been unbanned and is unverified, next to a verified u2
C4_Witness ==
    /\ ret.op = "unbanUser"
    /\ ret.userId = "u1"
    /\ dbUsers["u1"].isBanned = FALSE
    /\ dbUsers["u1"].banReason = Null
    /\ dbUsers["u1"].isVerified = FALSE
    /\ dbUsers["u2"].isVerified = TRUE
    /\ dbUsers["u2"].isBanned = TRUE

\* C5: whatever the store holds, searchUsers with verifiedOnly = true returns no
\* user whose isBanned is true and no user whose isVerified is not true.
C5_VerifiedOnlySearch ==
    (ret.op = "searchUsers" /\ ret.verifiedOnly) =>
        \A i \in 1..Len(ret.value) :
            /\ ret.value[i].isBanned # TRUE
            /\ ret.value[i].isVerified = TRUE
            /\ dbUsers[ret.value[i].id].isBanned # TRUE
            /\ dbUsers[ret.value[i].id].isVerified = TRUE

\* a verifiedOnly search has returned u1 while u2 is verified and banned
C5_Witness ==
    /\ ret.op = "searchUsers"
    /\ ret.verifiedOnly
    /\ Len(ret.value) = 1
    /\ ret.value[1].id = "u1"
    /\ dbUsers["u2"].isBanned = TRUE
    /\ dbUsers["u2"].isVerified = TRUE

\* C6: after any sequence of createSwapRequest, addSkillToUser and
\* removeSkillFromUser, no request returned by getUserSwapRequests or
\* getAllSwapRequests has an offeredSkill or requestedSkill that is still a
\* bare id: each is a full skill object.
C6_SkillsResolved ==
    ret.op \in {"getUserSwapRequests", "getAllSwapRequests"} =>
        \A i \in 1..Len(ret.value) :
            /\ ret.value[i].offeredSkill.kind = "object"
            /\ ret.value[i].requestedSkill.kind = "object"

\* C7: a swap request created with requester R and target user T (requesterId,
\* requesterUid, targetUid) is contained in getUserSwapRequests(T, "incoming")
\* and in getUserSwapRequests(R, "outgoing").
C7_IncomingOutgoing ==
    ret.op = "getUserSwapRequests" =>
        \A k \in 1..Len(dbSwapRequests) :
            /\ (ret.type = "incoming" /\ dbSwapRequests[k].targetUid = ret.userId)
                  => \E i \in 1..Len(ret.value) : ret.value[i].id = k
            /\ (ret.type = "outgoing" /\ dbSwapRequests[k].requesterId = ret.userId)
                  => \E i \in 1..Len(ret.value) : ret.value[i].id = k

\* the skills of userId of one type, as searchUsers is to return them
SkillsOfType(userId, type) ==
    SelectSeq(SkillsOfUser(userId, Len(dbSkills)), LAMBDA sk : sk.type = type)

\* C8: a verified, non-banned user U with a skill offered in category C is
\* included in searchUsers(skillCategory = C, verifiedOnly = true), with
\* skillsOffered exactly U's offered skills and skillsWanted exactly U's wanted
\* skills.
C8_SearchByCategory ==
    (/\ ret.op = "searchUsers"
     /\ ret.skillCategory # None
     /\ ret.location = None
     /\ ret.verifiedOnly) =>
        \A u \in Members :
            (/\ dbUsers[u].isVerified = TRUE
             /\ dbUsers[u].isBanned # TRUE
             /\ \E k \in 1..Len(dbSkills) :
                   /\ dbSkills[k].exists
                   /\ dbSkills[k].userId = u
                   /\ dbSkills[k].type = "offered"
                   /\ dbSkills[k].category = ret.skillCategory)
            => \E i \in 1..Len(ret.value) :
                   /\ ret.value[i].id = u
                   /\ ret.value[i].skillsOffered = SkillsOfType(u, "offered")
                   /\ ret.value[i].skillsWanted = SkillsOfType(u, "wanted")

\* the remote call that created skill k has resolved and its continuation
\* has not run yet
AwaitingContinuation(k) ==
    \E i \in 1..MaxInFlight : calls[i].pc = "resolved" /\ calls[i].result = k

\* the cached bucket of the skill document's type holds the skill
CachedInItsBucket(k) ==
    LET bucket == IF dbSkills[k].type = "offered" THEN store.userSkills.offered
                  ELSE store.userSkills.wanted
    IN \E j \in 1..Len(bucket) : bucket[j] = SkillObject(k)

\* C9: for two store addSkill calls for the same user issued before either
\* completes, one of type offered and one of type wanted, and for every order
\* in which their remote calls complete and their continuations run, once a
\* call has succeeded its skill is in the cached bucket of its type; so once
\* both have succeeded userSkills.offered contains the offered skill and
\* userSkills.wanted contains the wanted skill.
C9_ConcurrentAddSkill ==
    \A k \in 1..Len(dbSkills) : ~AwaitingContinuation(k) => CachedInItsBucket(k)

\* both calls of a pair have succeeded and completed: the two skill documents
\* exist, one of each type, and both are cached
C9_Witness ==
    /\ NoneInFlight
    /\ Len(dbSkills) >= 2
    /\ dbSkills[1].type # dbSkills[2].type
    /\ dbSkills[1].userId = dbSkills[2].userId
    /\ Len(store.userSkills.offered) = 1
    /\ Len(store.userSkills.wanted) = 1

\* every slice of the cache but the error slot and the loading flags
CacheSlices(state) ==
    [f \in DOMAIN state \ ({"error"} \cup LoadingFlags) |-> state[f]]

\* C10: for every store action whose remote call fails, every cache slice
\* other than the error slot and the loading flags has the value it had
\* before the action started, and the error slot holds a non-null message.
\* With one action in flight at a time the failing action is the three steps
\* start, rejection, catch: each leaves the slices as they were, and the last
\* leaves a message in the error slot.
C10_FailureLeavesCache ==
    [][\A i \in 1..MaxInFlight :
          /\ (calls[i] = Idle /\ calls'[i] # Idle)
                => CacheSlices(store') = CacheSlices(store)
          /\ (calls[i].pc = "pending" /\ calls'[i].pc = "rejected")
                => store' = store
          /\ (calls[i].pc = "rejected" /\ calls'[i] = Idle)
                => /\ CacheSlices(store') = CacheSlices(store)
                   /\ store'.error # Null
                   /\ store'.error # ""]_vars

\* an action has failed on a cache that holds a skill, a request and a message
C10_Witness ==
    /\ NoneInFlight
    /\ ret.op = "settled"
    /\ ret.remoteFailed
    /\ store.error # Null
    /\ Len(store.userSkills.offered) > 0
    /\ Len(store.swapRequests) > 0
    /\ 1 \in DOMAIN store.messages

\* C11: when the remote call fails, the store's createConversation records
\* the error message in the error slot and rejects to its caller with that
\* error, while sendMessage, sendEnhancedMessage and addMessageReaction
\* record the error and resolve without throwing.
C11_RethrowOrRecord ==
    [][\A i \in 1..MaxInFlight :
          (/\ calls[i].pc = "rejected"
           /\ calls'[i] = Idle
           /\ calls[i].op \in {"createConversation", "sendMessage",
                               "sendEnhancedMessage", "addMessageReaction"})
          => /\ store'.error # Null
             /\ calls[i].message # "" => store'.error = calls[i].message
             /\ ret'.action = calls[i].op
             /\ IF calls[i].op = "createConversation"
                THEN ret'.outcome = "rejected" /\ ret'.message = calls[i].message
                ELSE ret'.outcome = "fulfilled"]_vars

\* createConversation has just failed remotely: the error is recorded and the
\* caller has the rejection
C11_Witness ==
    /\ NoneInFlight
    /\ ret.op = "settled"
    /\ ret.action = "createConversation"
    /\ ret.outcome = "rejected"
    /\ store.error = "permission-denied"

FlaggedDelivery(s) ==
    /\ s \in 1..Len(listeners)
    /\ listeners'[s].flaggedSeen # listeners[s].flaggedSeen

\* a step in which the system-messages listener of subscription s delivers
MessagesDelivery(s) ==
    /\ s \in 1..Len(listeners)
    /\ listeners'[s].messagesSeen # listeners[s].messagesSeen

\* C13: the handle returned by subscribeToAdminData cancels both listeners:
\* once the handle of a subscription has been invoked, neither its
\* flagged-content listener nor its system-messages listener delivers a
\* callback to the store, whatever happens to the two collections.
C13_HandleCancelsBoth ==
    [][\A s \in 1..MaxSubs :
          (s \in 1..Len(listeners) /\ listeners[s].invoked) =>
             ~FlaggedDelivery(s) /\ ~MessagesDelivery(s)]_vars

\* a subscription that delivered from both feeds, was cancelled, and has
\* since missed a change of both collections
C13_Witness ==
    \E s \in 1..Len(listeners) :
       /\ listeners[s].invoked
       /\ listeners[s].flaggedSeen.delivered
       /\ listeners[s].messagesSeen.delivered
       /\ listeners[s].flaggedSeen # Delivered(FlaggedContentSnapshot)
       /\ listeners[s].messagesSeen # Delivered(SystemMessagesSnapshot)

\* C14: while the admin subscription is active, a flagged-content push with
\* snapshot S leaves the cached flaggedContent equal to S and systemMessages
\* as it was, and a system-messages push with snapshot M leaves the cached
\* systemMessages equal to M and flaggedContent as it was.
C14_PushReplacesSlice ==
    [][\A s \in 1..MaxSubs :
          /\ FlaggedDelivery(s) =>
                /\ store'.flaggedContent = FlaggedContentSnapshot
                /\ store'.systemMessages = store.systemMessages
          /\ MessagesDelivery(s) =>
                /\ store'.systemMessages = SystemMessagesSnapshot
                /\ store'.flaggedContent = store.flaggedContent]_vars

\* no two entries of a list carry the same id
DistinctIds(items) ==
    \A a, b \in 1..Len(items) : items[a].id = items[b].id => a = b

\* C15: under any interleaving of sendMessage / sendEnhancedMessage with
\* loadMessages for the same conversation, once every action in flight has
\* completed the cached messages[conversationId] holds no two entries with
\* the same message id.
C15_NoDuplicateMessages ==
    NoneInFlight =>
       \A c \in DOMAIN store.messages : DistinctIds(store.messages[c])

\* C16: for every interleaving of the steps (insert rating, read all ratings
\* of the target, write aggregate) of two concurrent addRating calls for the
\* same target user, once both calls have completed the stored rating and
\* reviewCount of the target are computed from the full set of ratings
\* addressed to it, both new ones included.
C16_ConcurrentRatings ==
    \A target \in Members :
       LET addressed == RatingsAddressedTo(target)
       IN (NoneInFlight /\ Len(addressed) = 2) =>
             /\ dbUsers[target].reviewCount = 2
             /\ dbUsers[target].rating = RoundedAverage(SumRatings(addressed), 2)

\* the conversation document has an unread counter entry for the user
HasCounter(conv, userId) ==
    "unreadCount" \in DOMAIN conv /\ userId \in DOMAIN conv.unreadCount

\* C17: every conversation document, whether created by
\* messageService.createConversation or by
\* enhancedMessageService.createConversation, has an unread counter entry for
\* each of its participants, and the entry is 0 when the conversation has just
\* been created.
C17_CountersForEveryParticipant ==
    /\ \A c \in 1..Len(dbConversations) :
          dbConversations[c].exists =>
             \A u \in dbConversations[c].participants :
                HasCounter(dbConversations[c], u)
    /\ ret.op \in {"baseCreateConversation", "createConversation"} =>
          \A u \in ret.participants :
             /\ HasCounter(dbConversations[ret.id], u)
             /\ dbConversations[ret.id].unreadCount[u] = 0

\* the new_message notifications a step has added for the user
AddedNotifications(userId) ==
    {n \in (Len(dbNotifications) + 1)..Len(dbNotifications') :
        dbNotifications'[n].userId = userId /\ dbNotifications'[n].type = "new_message"}

\* C18: for both messageService.sendMessage and
\* enhancedMessageService.sendMessage, a completed send into an existing
\* conversation creates exactly one new_message notification for each
\* participant other than the sender and none for the sender.
C18_OneNotificationPerOther ==
    [][(/\ ret'.op \in {"baseSendMessage", "sendMessage"}
        /\ Exists(dbConversations, ret'.conversationId))
       => /\ \A u \in dbConversations[ret'.conversationId].participants \ {ret'.senderId} :
                Cardinality(AddedNotifications(u)) = 1
          /\ AddedNotifications(ret'.senderId) = {}]_vars

\* the cached entries keep every terminal status they hold
CachedStatusKept(before, after) ==
    \A k \in 1..Len(before) :
       before[k].status \in TerminalStatuses =>
          k \in 1..Len(after) /\ after[k].status = before[k].status

\* C19: once a swap request's status is completed or cancelled, no later
\* updateSwapRequestStatus call (the service function or the store action)
\* changes its status, in the remote document or in the cached swapRequests
\* and adminRequests entries.
C19_TerminalStatusKept ==
    [][/\ \A r \in 1..Len(dbSwapRequests) :
             (dbSwapRequests[r].exists /\ dbSwapRequests[r].status \in TerminalStatuses)
                => dbSwapRequests'[r].status = dbSwapRequests[r].status
       /\ CachedStatusKept(store.swapRequests, store'.swapRequests)
       /\ CachedStatusKept(store.adminRequests, store'.adminRequests)]_vars

\* the ids of the existing skill documents of the user with the type
SkillIdsOfType(userId, type) ==
    {k \in 1..Len(dbSkills) :
        dbSkills[k].exists /\ dbSkills[k].userId = userId /\ dbSkills[k].type = type}

\* the id array holds exactly the ids, each once
HoldsExactly(array, ids) ==
    /\ Range(array.items) = ids
    /\ Len(array.items) = Cardinality(ids)

\* C20: whenever no addSkillToUser or removeSkillFromUser call is in flight,
\* also after a call that failed at its second remote step, the id array
\* skillsOffered of each user document holds exactly the ids of the existing
\* skill documents of that user with type offered, and skillsWanted exactly
\* those with type wanted.
C20_SkillArraysConsistent ==
    \A u \in Members :
       /\ HoldsExactly(dbUsers[u].skillsOffered, SkillIdsOfType(u, "offered"))
       /\ HoldsExactly(dbUsers[u].skillsWanted, SkillIdsOfType(u, "wanted"))

\* the text occurs in the field
Contains(field, text) ==
    \E k \in 0..(Len(field) - Len(text)) :
       \A j \in 1..Len(text) : field[k + j] = text[j]

\* the user matches the search text in its name or its location
MatchesQuery(user, searchQuery) ==
    Contains(user.name, searchQuery) \/ Contains(user.location, searchQuery)

\* C21: when searchUsers is called with a non-empty searchQuery, the free-text
\* filter is applied in memory to the fetched page: every returned user
\* matches the query text in at least one searched field, so users of the
\* page that match no field are not returned.
C21_FreeTextFilter ==
    (ret.op = "searchUsers" /\ "searchQuery" \in DOMAIN ret /\ ret.searchQuery # <<>>) =>
       \A i \in 1..Len(ret.value) : MatchesQuery(ret.value[i], ret.searchQuery)

\* C22: the store's editMessage and deleteMessage, called with a message id
\* that is in no cached conversation bucket while the remote call succeeds,
\* leave every cached message bucket unchanged and leave the error slot null.
C22_UncachedMessageIsNoOp ==
    [][\A i \in 1..MaxInFlight :
          (/\ calls[i].pc = "resolved"
           /\ calls'[i] = Idle
           /\ calls[i].op \in {"editMessage", "deleteMessage"}
           /\ BucketsWith(store.messages, calls[i].messageId) = {})
          => /\ store'.messages = store.messages
             /\ store'.error = Null]_vars

\* editMessage has just succeeded for a message of the other participant that
\* the cache does not hold, while the cache holds a message of its own
C22_Witness ==
    /\ NoneInFlight
    /\ ret.op = "settled"
    /\ ret.action = "editMessage"
    /\ ~ret.remoteFailed
    /\ store.error = Null
    /\ \E m \in 1..Len(dbMessages) :
          /\ dbMessages[m].exists
          /\ dbMessages[m].edited
          /\ dbMessages[m].senderId = "u2"
          /\ BucketsWith(store.messages, m) = {}
    /\ \E c \in DOMAIN store.messages : Len(store.messages[c]) > 0

\* the loading flag of the slice a load or search action fills
SliceFlag(op) ==
    CASE op \in {"loadUsers", "loadAllUsers", "searchUsers"} -> "isLoadingUsers"
      [] op \in {"loadSwapRequests", "loadAllSwapRequests", "loadAdminRequests"}
            -> "isLoadingRequests"
      [] op \in {"loadConversations", "loadMessages"} -> "isLoadingMessages"
      [] op = "loadNotifications" -> "isLoadingNotifications"
      [] op = "loadFlaggedContent" -> "isLoadingAdminData"
      [] OTHER -> None

\* C23: whenever at least one load or search action for a slice (users,
\* requests, messages, notifications, admin data) is in flight, that slice's
\* loading flag is true; this holds for overlapping loads of the same slice
\* and for loadMessages.
C23_FlagWhileInFlight ==
    \A i \in 1..MaxInFlight :
       (calls[i] # Idle /\ SliceFlag(calls[i].op) # None)
          => store[SliceFlag(calls[i].op)] = TRUE

\* a notifications snapshot reaches the callback in this step
SnapshotArrives(s) ==
    /\ s \in 1..Len(listeners)
    /\ listeners[s].kind = "notifications"
    /\ Len(listeners'[s].inTransit) < Len(listeners[s].inTransit)

\* the continuation of a notification action whose remote call succeeded
\* runs in this step
NotificationPatchRuns(i, op) ==
    /\ calls[i].pc = "resolved"
    /\ calls[i].op = op
    /\ calls'[i] = Idle

MarkedRead(notification) == Merge(notification, [read |-> TRUE])

\* C24: for the notifications slice the write that arrives last determines
\* the cache: when a subscription snapshot S is delivered, notifications
\* equals S exactly, whatever optimistic patch was applied before it, and a
\* markNotificationAsRead, markAllNotificationsAsRead or deleteNotification
\* patch that runs afterwards is applied to the list the cache holds then.
C24_LastWriteWins ==
    [][/\ \A s \in 1..MaxSubs :
            SnapshotArrives(s) =>
               store'.notifications = Head(listeners[s].inTransit)
       /\ \A i \in 1..MaxInFlight :
            LET before == store.notifications
                after == store'.notifications
            IN /\ NotificationPatchRuns(i, "markNotificationAsRead") =>
                     /\ Len(after) = Len(before)
                     /\ \A n \in 1..Len(before) :
                           after[n] = IF before[n].id = calls[i].notificationId
                                      THEN MarkedRead(before[n]) ELSE before[n]
               /\ NotificationPatchRuns(i, "markAllNotificationsAsRead") =>
                     /\ Len(after) = Len(before)
                     /\ \A n \in 1..Len(before) : after[n] = MarkedRead(before[n])
               /\ NotificationPatchRuns(i, "deleteNotification") =>
                     after = SelectSeq(before,
                                LAMBDA x : x.id # calls[i].notificationId)]_vars

\* a snapshot computed before both notifications were marked as read has
\* been delivered after the two patches: the cache shows the snapshot, with
\* an unread notification that is read in the collection
C24_Witness ==
    /\ ret.op = "callback"
    /\ NoneInFlight
    /\ store.notifications = ret.data
    /\ Len(store.notifications) = 2
    /\ \E n, m \in 1..2 :
          /\ store.notifications[n].read
          /\ ~store.notifications[m].read
          /\ dbNotifications[store.notifications[m].id].exists
          /\ dbNotifications[store.notifications[m].id].read

\* a listener that still receives snapshots
Attached(listener) ==
    IF listener.kind = "notifications" THEN listener.attached
    ELSE listener.flagged \/ listener.messages

\* the attached listeners a view's effect has established
ActiveListeners(view) ==
    {s \in 1..Len(listeners) :
        listeners[s].owner = view /\ Attached(listeners[s])}

\* C25: every subscription the admin dashboard or the NotificationCenter
\* establishes is cancelled when the view is torn down or when the id it
\* subscribed for (admin role, session uid) changes: at most one listener
\* per view is active at any time, and none while the view is not mounted.
C25_OneListenerPerView ==
    \A view \in Views :
       /\ Cardinality(ActiveListeners(view)) <= 1
       /\ ~views[view].mounted => ActiveListeners(view) = {}

\* both views have subscribed, re-subscribed for a changed id and been
\* torn down
C25_Witness ==
    /\ Len(listeners) = MaxEffects
    /\ \A view \in Views :
          /\ ~views[view].mounted
          /\ \E s \in 1..Len(listeners) : listeners[s].owner = view
    /\ \E s, u \in 1..Len(listeners) :
          /\ s # u
          /\ listeners[s].owner = listeners[u].owner

OnlyWhiteSpace(text) == \A k \in 1..Len(text) : text[k] = " "

\* C26: a ban with an empty or whitespace-only reason and a broadcast with
\* empty or whitespace-only content are rejected before any remote call is
\* made: no call with such an input is ever in flight, no user document
\* holds a ban with such a reason and no systemMessages document has such
\* a content.
C26_BlankInputsRejected ==
    /\ \A i \in 1..MaxInFlight :
          /\ (calls[i] # Idle /\ calls[i].op = "banUser")
                => ~OnlyWhiteSpace(calls[i].reason)
          /\ (calls[i] # Idle /\ calls[i].op = "sendBroadcastMessage")
                => ~OnlyWhiteSpace(calls[i].text)
    /\ \A u \in Members :
          dbUsers[u].isBanned = TRUE => ~OnlyWhiteSpace(dbUsers[u].banReason)
    /\ \A n \in 1..Len(dbSystemMessages) :
          dbSystemMessages[n].exists => ~OnlyWhiteSpace(dbSystemMessages[n].content)

\* a ban with a reason of two spaces has just been answered with the alert;
\* nothing is in flight, and no user is banned although bans with a reason
\* go through elsewhere in the run (a broadcast has been stored)
C26_Witness ==
    /\ ret.op = "alert"
    /\ ret.banReason = <<" ", " ">>
    /\ NoneInFlight
    /\ \A u \in Members : dbUsers[u].isBanned = FALSE
    /\ Len(dbSystemMessages) > 0

\* newest first: no message comes before one created later
NewestFirst(messages) ==
    \A a, b \in 1..Len(messages) :
       a < b => messages[a].createdAt >= messages[b].createdAt

\* C27: every system-messages snapshot that subscribeToAdminData delivers
\* to its callback is ordered by createdAt descending (newest first), for
\* any order in which the store returns the active messages.
C27_NewestFirst ==
    (ret.op = "callback" /\ ret.data.type = "systemMessages")
       => NewestFirst(ret.data.data)

\* C28: getUserSwapRequests(U) with no type returns every request whose
\* target is U and every request whose requester is U, ordered by
\* createdAt descending, with no request id appearing more than once.
C28_BothDirections ==
    (ret.op = "getUserSwapRequests" /\ ret.type = None) =>
        /\ \A k \in 1..Len(dbSwapRequests) :
              (/\ dbSwapRequests[k].exists
               /\ \/ dbSwapRequests[k].targetUid = ret.userId
                  \/ dbSwapRequests[k].requesterId = ret.userId)
                 => \E i \in 1..Len(ret.value) : ret.value[i].id = k
        /\ \A a, b \in 1..Len(ret.value) :
              a < b => ret.value[a].createdAt >= ret.value[b].createdAt
        /\ DistinctIds(ret.value)

\* the cached user and the user document hold the same ban fields
SameBanFields(cached, document) ==
    /\ cached.isBanned = document.isBanned
    /\ cached.isVerified = document.isVerified
    /\ cached.banReason = document.banReason
    /\ cached.bannedAt = document.bannedAt

\* C29: after a successful store banUser or unbanUser for a user present
\* in the cached users list, the cached user agrees with the remote user
\* document on isBanned, isVerified, banReason and bannedAt.
C29_CacheAgreesAfterBan ==
    [][\A i \in 1..MaxInFlight :
          (/\ calls[i].pc = "resolved"
           /\ calls'[i] = Idle
           /\ calls[i].op \in {"banUser", "unbanUser"}
           /\ FindUserIndex(store.users, calls[i].userId) # 0)
          => SameBanFields(
                store'.users[FindUserIndex(store.users, calls[i].userId)],
                dbUsers'[calls[i].userId])]_vars

\* at most one entry per emoji, no entry without users, no user twice in an
\* entry
WellFormedReactions(reactions) ==
    /\ \A a, b \in 1..Len(reactions) :
          reactions[a].emoji = reactions[b].emoji => a = b
    /\ \A a \in 1..Len(reactions) :
          /\ Len(reactions[a].users) > 0
          /\ \A x, y \in 1..Len(reactions[a].users) :
                reactions[a].users[x] = reactions[a].users[y] => x = y

\* C30: starting from a message with no reactions, after any sequence of
\* addMessageReaction and removeMessageReaction calls run one after
\* another, the message's reaction list has at most one entry per emoji, no
\* entry has an empty user list, and no user id appears twice in an entry.
C30_ReactionListWellFormed ==
    \A m \in 1..Len(dbMessages) :
       dbMessages[m].exists => WellFormedReactions(dbMessages[m].reactions)

\* u1 has just withdrawn e1, the only user of that entry, from a message
\* that two users have reacted to with e2: the e1 entry is gone
C30_Witness ==
    /\ ret.op = "removeMessageReaction"
    /\ ret.emoji = "e1"
    /\ ret.userId = "u1"
    /\ Exists(dbMessages, ret.messageId)
    /\ dbMessages[ret.messageId].reactions
         = <<[emoji |-> "e2", users |-> <<"u2", "u1">>]>>

\* the fields an edit may write
EditFields == {"content", "edited", "editedAt"}

\* two versions of a message that differ in the edit fields at most
SameButEdit(before, after) ==
    /\ DOMAIN before \ EditFields = DOMAIN after \ EditFields
    /\ \A f \in DOMAIN before \ EditFields : before[f] = after[f]

SentByOthers(conversationId, userId) ==
    {m \in 1..Len(dbMessages) :
        /\ dbMessages[m].exists
        /\ dbMessages[m].conversationId = conversationId
        /\ dbMessages[m].senderId # userId}

\* C32: for every interleaving of concurrent enhancedMessageService
\* sendMessage calls by different senders into one conversation, once all
\* have completed the unread counter of each participant has grown by the
\* number of those messages sent by others; no increment is lost, also
\* when a markConversationAsRead runs concurrently.  (u1 is the only one
\* who marks the conversation as read, so the counters of u2 and u3 start
\* at 0 and are never reset.)
C32_NoLostIncrement ==
    NoneInFlight =>
        \A u \in {"u2", "u3"} :
            UnreadOf(CurrentUnreadCount(dbConversations[1]), u)
               = Cardinality(SentByOthers(1, u))

\* C33: for every interleaving of concurrent addMessageReaction calls by
\* different users on one message, once they have completed the reaction
\* list contains the reactions of all of them: as every call writes its
\* own user's reaction, no write may take away a reaction that is there.
C33_ConcurrentReactionsKept ==
    [][\A m \in 1..Len(dbMessages), e \in Emojis, u \in Users :
          HasReacted(dbMessages[m], e, u) => HasReacted(dbMessages'[m], e, u)]_vars

\* the message documents of a conversation that enhancedMessageService
\* .sendMessage wrote (only these carry a reactions list)
StoredBySendEnhancedMessage(conversationId) ==
    {m \in 1..Len(dbMessages) :
        /\ dbMessages[m].exists
        /\ dbMessages[m].conversationId = conversationId
        /\ "reactions" \in DOMAIN dbMessages[m]}

\* C34: a message that the store's sendEnhancedMessage stored in a
\* conversation is in the list that a later loadMessages of that
\* conversation puts into the cache.
C34_SentMessagesAreLoaded ==
    (NoneInFlight /\ ret.op = "settled" /\ ret.action = "loadMessages"
                  /\ ~ret.remoteFailed) =>
        \A m \in StoredBySendEnhancedMessage(1) :
            \E k \in 1..Len(store.messages[1]) : store.messages[1][k].id = m

\* C35: every message written by the store's sendEnhancedMessage has a
\* senderId that is not empty and is a participant of the conversation,
\* also when currentUserProfile has not been loaded into the cache.
C35_SenderIsParticipant ==
    \A m \in StoredBySendEnhancedMessage(1) :
        /\ dbMessages[m].senderId # ""
        /\ Exists(dbConversations, 1) =>
               dbMessages[m].senderId \in dbConversations[1].participants

\* every skill of the list is of the given type
AllOfType(skills, type) ==
    \A k \in 1..Len(skills) : skills[k].type = type

\* the cached wanted skills that exist remotely
CachedWanted(state) ==
    {state.userSkills.wanted[k].id : k \in 1..Len(state.userSkills.wanted)}
       \cap {id \in 1..Len(dbSkills) : dbSkills[id].exists}

\* C36: after any sequence of loadUserSkills (type offered, wanted or none),
\* addSkill and removeSkill for one user, the cached userSkills.offered
\* holds only skills of type offered and userSkills.wanted only skills of
\* type wanted, and loadUserSkills without a type does not drop from the
\* cache a wanted skill that exists remotely.
C36_SkillBucketsByType ==
    [][/\ AllOfType(store'.userSkills.offered, "offered")
       /\ AllOfType(store'.userSkills.wanted, "wanted")
       /\ \A i \in 1..MaxInFlight :
             (/\ calls[i] # Idle
              /\ calls[i].op = "loadUserSkills"
              /\ calls[i].type = None
              /\ calls'[i] = Idle)
                => CachedWanted(store) \subseteq CachedWanted(store')]_vars

\* get().notifications.filter(n => !n.read).length
GetUnreadNotificationCount(state) ==
    Cardinality({k \in 1..Len(state.notifications) : ~state.notifications[k].read})

\* C37: in every reachable state the store field unreadNotificationCount
\* equals the number of cached notifications whose read flag is false.
C37_UnreadCountMatchesCache ==
    store.unreadNotificationCount = GetUnreadNotificationCount(store)

\* the step is the end of the handler and tells the user of a success
ReportsSuccess(i, handler, report) ==
    /\ calls[i] # Idle
    /\ calls'[i] = Idle
    /\ ret'.op = report.op
    /\ ret'.handler = handler
    /\ ret' = Merge(ret', report)

\* C38: the page handlers report success to the user only if the remote
\* write succeeded: handleSendMessage shows "Message sent" only when the
\* message is stored, handleBanUser and handleUnbanUser alert success only
\* when the user document has been updated.
C38_SuccessOnlyAfterWrite ==
    [][\A i \in 1..MaxInFlight :
          /\ ReportsSuccess(i, "handleSendMessage",
                            [op |-> "toast", title |-> "Message sent"])
                => (calls[i].pc = "resolved" /\ Exists(dbMessages, calls[i].result))
          /\ ReportsSuccess(i, "handleBanUser",
                [op |-> "alert", text |-> "User has been banned successfully."])
                => dbUsers[calls[i].userId].isBanned = TRUE
          /\ ReportsSuccess(i, "handleUnbanUser",
                [op |-> "alert", text |-> "User has been unbanned successfully."])
                => dbUsers[calls[i].userId].isBanned = FALSE]_vars

\* the step starts a store action
StartsAction ==
    \E i \in 1..MaxInFlight : calls[i] = Idle /\ calls'[i] # Idle

\* C39: after reset() the cache equals initialState, and it stays equal to
\* initialState until a new action is started: an action or a subscription
\* callback that was started before the reset and completes after it does
\* not write into the cache.
C39_ResetIsFinal ==
    [][/\ (ret'.op = "reset" /\ ret' # ret) => store' = initialState
       /\ (store = initialState /\ ~StartsAction) => store' = initialState]_vars

====
